---- MODULE Spec2Model ----
(***************************************************************************)
(* A model of the AI research paper visualizer backend:                    *)
(*   - PaperScraper (src/backend/scraper.py): the retrying page fetch, the  *)
(*     per-publisher extraction strategies, scrape_abstract, batch_scrape; *)
(*   - ScenarioClient (src/backend/scenario_client.py): _make_request,     *)
(*     generate_image, _poll_and_download, _download_images;               *)
(*   - SerperClient (src/backend/serper_client.py): _make_request,         *)
(*     search_scholar's interface;                                         *)
(*   - the HTTP API (src/backend/app.py): /api/scrape, /api/search,        *)
(*     /api/process, /api/generate-image, /api/health, /api/last-result.   *)
(*                                                                         *)
(* Nine specifications share the module:                                   *)
(*   ExtractSpec  one call of scrape_abstract on any link and any page;    *)
(*   BatchSpec    one /api/scrape request running batch_scrape;            *)
(*   PoolSpec     batch_scrape, each extraction as a start and a finish;   *)
(*   GenSpec      one call of ScenarioClient.generate_image;               *)
(*   RetrySpec    one call of a function under @retry, attempt by attempt;  *)
(*   DirSpec      two generation jobs downloading into one directory;      *)
(*   Img2ImgSpec  one call of generate_image_img2img;                      *)
(*   TwinSpec     the backend's and the command line's poller side by side; *)
(*   ApiSpec      requests to /api/search, /api/process,                   *)
(*                /api/generate-image, /api/health, /api/last-result.      *)
(*                                                                         *)
(* Strings are abstracted by what the code reads of them: a text by its    *)
(* trimmed length and its surrounding whitespace, a link by the dispatch   *)
(* patterns its host and its path contain, an error message by its fixed   *)
(* prefix.                                                                 *)
(***************************************************************************)
EXTENDS Integers, Sequences, FiniteSets, TLC

VARIABLES
    \* ---- one call of PaperScraper.scrape_abstract
    url,              \* the link passed as url
    fallback_snippet, \* the snippet passed as fallback
    spc,              \* "ready" | "returned" | "raised"
    result,           \* the dictionary scrape_abstract returned
    obs,              \* what the call did: strategy, fetch attempts, extracted text
    \* ---- one /api/scrape request (batch_scrape)
    papers,           \* the list batch_scrape works on (mutated in place)
    request,          \* the papers as they were posted
    bidx,             \* loop index of batch_scrape (papers already processed)
    bpc,              \* "loop" | "respond" | "done"
    returned,         \* the results scrape_abstract returned, in call order
    response,         \* the endpoint's JSON answer
    in_flight,        \* the papers whose scrape_abstract call has not returned yet
    \* ---- one call of ScenarioClient.generate_image
    gpc,              \* "submit" | "poll" | "lookup" | "download" | "done"
    submit_response,  \* the JSON the submit request answered with
    job_id,           \* the job identifier taken from the submit response
    attempt,          \* loop variable of _poll_and_download (0-based)
    calls,            \* _make_request / _download_image calls made, by purpose
    lastRead,         \* what the most recent polling attempt saw
    reads,            \* summary of all polling attempts so far
    asset_ids,        \* job.metadata.assetIds of the successful job
    ai,               \* loop index of _download_images (0-based)
    image_url,        \* URL found for the asset being processed
    downloaded_files, \* the list _download_images builds
    assetLog,         \* per asset processed so far, what happened to it
    outcome,          \* how generate_image ended
    \* ---- one call of a function under tenacity's @retry
    wrapper,          \* which of the four decorated functions is called
    rpc,              \* "attempt" | "returned" | "raised"
    attempt_number,   \* attempts made so far (tenacity's attempt_number)
    history,          \* what each attempt did, in order
    raised_error,     \* type of the exception the call raised to its caller
    waits,            \* backoff waits made between attempts
    accepted,         \* attempts whose request the remote end processed
    \* ---- the HTTP API (src/backend/app.py)
    environ,          \* which API keys the process environment holds
    serper_client,    \* module global: "None" or "client"
    scenario_client,  \* module global: "None" or "client"
    last_result_file, \* output/last_result.json
    http,             \* the latest request and the answer it got
    trace,            \* the stages the latest /api/process run went through
    world,            \* what the outside services gave the latest request
    last_run,         \* how the most recent /api/process run ended
    \* ---- two generation jobs writing to one output directory
    now,              \* datetime.now(), in whole seconds
    concurrent,       \* the two jobs run side by side, or one after the other
    jobs,             \* each job's position in _download_images and its files
    output_dir,       \* the files of the directory: path and the job that wrote it
    \* ---- one call of ScenarioImg2ImgGenerator.generate_image_img2img
    image_path,       \* the reference image: whether it exists, its size in bytes
    img_kwargs,       \* the keyword arguments of the call that are set
    ipc,              \* "upload" | "submit" | "poll" | "done"
    reference,        \* the value of 'image' in the generation payload
    sent,             \* the POST requests made so far and the file bytes they carry
    img_result,       \* what the call returned
    \* ---- the two pollers of one job, given the same status responses
    backend,          \* ScenarioClient._poll_and_download: requests made, how it ended
    cli,              \* ScenarioImageGenerator.poll_job_status: the same
    wellformed        \* every status response so far had the documented form

scrapeVars == <<url, fallback_snippet, spc, result, obs>>
batchVars  == <<papers, request, bidx, bpc, returned, response, in_flight>>
genVars    == <<gpc, submit_response, job_id, attempt, calls, lastRead, reads,
                asset_ids, ai, image_url, downloaded_files, assetLog, outcome>>
retryVars  == <<wrapper, rpc, attempt_number, history, raised_error, waits,
                accepted>>
apiVars    == <<environ, serper_client, scenario_client, last_result_file, http,
                trace, world, last_run>>
dirVars    == <<now, concurrent, jobs, output_dir>>
imgVars    == <<image_path, img_kwargs, ipc, reference, sent, img_result>>
twinVars   == <<backend, cli, wellformed>>
sideVars   == <<dirVars, imgVars, twinVars>>
coreVars   == <<scrapeVars, batchVars, genVars, retryVars, apiVars>>
vars == <<scrapeVars, batchVars, genVars, retryVars, apiVars, sideVars>>

----------------------------------------------------------------------------
(* Bounds of the model *)

\* extracted texts have trimmed lengths within Margin of the threshold
Margin == 1
\* surrounding whitespace of a raw text: none, or MaxPad characters
MaxPad == 2
\* at most this many of a page's candidate elements are present
MaxPresent == 2
\* papers in one batch
MaxPapers == 2
\* asset identifiers in one job
MaxAssets == 2
\* the search service lists at most MaxFound papers
MaxFound == 2
\* the most papers in a batch whose extractions are followed one by one
MaxBatch == 6
\* seconds the clock can advance while two jobs download
MaxClock == 1
\* reference images have sizes within SizeMargin bytes of the upload limit
SizeMargin == 1

(* Program constants *)

\* scrape_abstract / _scrape_generic: len(...) > 50
MinAbstractLen == 50
\* @retry(stop=stop_after_attempt(3)) on every retry-wrapped request
StopAfterAttempt == 3
\* _poll_and_download(max_attempts=60)
max_attempts == 60
\* _scrape_generic: the length of its selectors list
NumSelectors == 6
\* _poll_and_download(..., poll_interval=5): seconds between two polls
poll_interval == 5
\* _scrape_arxiv: len('Abstract:'), the label it removes
LabelLen == 9

----------------------------------------------------------------------------
(* Strings *)

\* A string value the scraper handles: Python None, a fallback snippet
\* (passed through untouched, known by its identity), or a text taken from a
\* page (known by the trimmed length of what follows its 'Abstract:' label,
\* if it starts with one, and by its surrounding whitespace).
None == [kind |-> "none", id |-> "", len |-> 0, pad |-> 0, label |-> FALSE]
Snip(s) == [kind |-> "snippet", id |-> s, len |-> 0, pad |-> 0, label |-> FALSE]
Txt(n, p) == [kind |-> "text", id |-> "", len |-> n, pad |-> p, label |-> FALSE]
\* the text 'Abstract:' followed by t
Labelled(t) == [t EXCEPT !.label = TRUE]

Lens == {0} \cup ((MinAbstractLen - Margin)..(MinAbstractLen + Margin))
Pads == {0, MaxPad}
\* what an element's text can be: raw (meta content) or already stripped
RawTexts == {Txt(n, p) : n \in Lens, p \in Pads}
Snippets == {"sA", "sB"}

\* len(s)
PyLen(s) == s.len + s.pad + (IF s.label THEN LabelLen ELSE 0)
\* s.strip()
Unstripped(s) == s
Strip(s) == [s EXCEPT !.pad = 0]
\* s.replace('Abstract:', '')
ReplaceLabel(s) == [s EXCEPT !.label = FALSE]
\* Python truthiness of an Optional[str]
Truthy(s) == s.kind # "none" /\ (s.kind = "text" => PyLen(s) > 0)

----------------------------------------------------------------------------
(* Links *)

\* The substrings scrape_abstract looks for in the link's host.
Patterns == {"arxiv.org", "pubmed", "ncbi.nlm.nih.gov", "ieee", "acm.org", "springer"}

\* A link: empty ("") or a URL whose host contains the patterns in `host` and
\* whose path and query contain the patterns in `path`.
LinkWithPath(e, h, p) == [empty |-> e, host |-> h, path |-> p]
Link(e, h) == LinkWithPath(e, h, {})
EmptyLink == Link(TRUE, {})
Links ==
    {EmptyLink, Link(FALSE, {})}
    \cup {Link(FALSE, {p}) : p \in Patterns}
    \cup {Link(FALSE, {"arxiv.org", "ieee"}), Link(FALSE, {"pubmed", "springer"})}
    \cup {LinkWithPath(FALSE, {}, {"arxiv.org"}),
          LinkWithPath(FALSE, {"springer"}, {"pubmed"})}

\* urlparse(url).netloc.lower(), as the set of patterns it contains
WholeUrl(u) == IF u.empty THEN {} ELSE u.host \cup u.path
Netloc(u) == IF u.empty THEN {} ELSE u.host

\* scrape_abstract's if/elif chain
StrategyFor(domain) ==
    IF "arxiv.org" \in domain THEN "arxiv"
    ELSE IF "pubmed" \in domain \/ "ncbi.nlm.nih.gov" \in domain THEN "pubmed"
    ELSE IF "ieee" \in domain THEN "ieee"
    ELSE IF "acm.org" \in domain THEN "acm"
    ELSE IF "springer" \in domain THEN "springer"
    ELSE "generic"

----------------------------------------------------------------------------
(* The retrying page fetch *)

\* What one HTTP attempt can do.  "invalid" is requests.exceptions.MissingSchema,
\* what requests.get raises for a URL without a scheme, the empty link included.
HttpFailures == {"http4xx", "http429", "http5xx", "conn", "timeout"}
HttpOutcomes == {"ok"} \cup HttpFailures
\* the outcomes of the attempts a call may make, in order
Scripts == [1..StopAfterAttempt -> HttpOutcomes]
FetchScripts(u) ==
    IF u.empty THEN {[k \in 1..StopAfterAttempt |-> "invalid"]} ELSE Scripts

FirstOk(script) ==
    IF \E k \in DOMAIN script : script[k] = "ok"
    THEN CHOOSE k \in DOMAIN script :
            script[k] = "ok" /\ \A j \in 1..(k - 1) : script[j] # "ok"
    ELSE 0

\* PaperScraper._fetch_page under tenacity: every failure of requests.get or
\* raise_for_status is a RequestException and is retried, up to
\* StopAfterAttempt attempts; the last error is re-raised.
_fetch_page(script) ==
    IF FirstOk(script) > 0
    THEN [ok |-> TRUE, attempts |-> FirstOk(script), err |-> "none"]
    ELSE [ok |-> FALSE, attempts |-> StopAfterAttempt, err |-> script[StopAfterAttempt]]
\* every way a fetch of link u can end
Fetches(u) == {_fetch_page(script) : script \in FetchScripts(u)}

----------------------------------------------------------------------------
(* Pages and extraction strategies *)

\* A fetched page, as the selected strategy sees it: whether BeautifulSoup
\* parses it, and for the k-th element the strategy looks up, None when
\* soup.find finds nothing, else the element's text (for a meta tag its
\* content attribute, raw).
NumAnchors(strategy) ==
    IF strategy = "arxiv" THEN 1
    ELSE IF strategy = "generic" THEN NumSelectors
    ELSE 2

\* The text of a meta tag is its content attribute, taken raw; the text of any
\* other element is read with get_text(strip=True), so only its stripped form
\* is ever seen.
MetaElems == {None} \cup RawTexts
BodyElems == {None} \cup {Txt(n, 0) : n \in Lens}
\* the text of a publisher's abstract element may start with the label
AnchorElems == BodyElems \cup {Labelled(Txt(n, 0)) : n \in Lens}
NumPresent(found) == Cardinality({k \in DOMAIN found : found[k] # None})
\* `elsewhere` is what the generic selectors would find on a publisher's
\* page: nothing, or a description long enough to be accepted
Unparseable == [parses |-> FALSE, found |-> << >>, elsewhere |-> None]
PagesOf(n, metas, most) ==
    {Unparseable} \cup
    {[parses |-> TRUE, found |-> f, elsewhere |-> None] :
        f \in {g \in [1..n -> MetaElems] :
                 /\ \A k \in (metas + 1)..n : g[k] \in BodyElems
                 /\ NumPresent(g) <= most}}
AnchorPages(n) ==
    {Unparseable} \cup
    {[parses |-> TRUE, found |-> f, elsewhere |-> g] :
        f \in [1..n -> AnchorElems], g \in {None, Txt(MinAbstractLen + 1, 0)}}
ArxivPages == AnchorPages(1)
DedicatedPages == AnchorPages(2)
GenericPages == PagesOf(NumSelectors, 2, MaxPresent)
Pages(strategy) ==
    IF strategy = "arxiv" THEN ArxivPages
    ELSE IF strategy = "generic" THEN GenericPages
    ELSE DedicatedPages

\* elem.get_text(strip=True)
GetTextStrip(e) == Strip(e)

\* What a strategy returns: a text or None.  `raised` is TRUE when an
\* exception leaves the strategy (the code's try/except never lets one).
Found(t) == [raised |-> FALSE, text |-> t]

\* the body of _scrape_arxiv after a successful fetch: the one anchor, its
\* stripped text with the label removed, stripped again
ArxivBody(page) ==
    LET elem == page.found[1]
    IN IF elem # None THEN Found(Strip(ReplaceLabel(GetTextStrip(elem))))
       ELSE Found(None)

\* the body of _scrape_pubmed, _scrape_ieee, _scrape_acm and _scrape_springer
\* after a successful fetch: the first anchor, else the alternative; its
\* stripped text
DedicatedThenGeneric(page) ==
    LET first == page.found[1]
        second == IF first = None THEN page.found[2] ELSE first
        elem == IF second = None THEN page.elsewhere ELSE second
    IN IF elem # None THEN Found(GetTextStrip(elem)) ELSE Found(None)
DedicatedBody(page) ==
    LET first == page.found[1]
        elem == IF first = None THEN page.found[2] ELSE first
    IN IF elem # None THEN Found(GetTextStrip(elem)) ELSE Found(None)

\* the loop of _scrape_generic from selector k on: meta tags give their raw
\* content, other elements their stripped text; the first one longer than
\* MinAbstractLen is returned
RECURSIVE GenericFrom(_, _)
GenericFrom(page, k) ==
    IF k > Len(page.found) THEN Found(None)
    ELSE LET elem == page.found[k]
             content == IF k <= 2 THEN elem ELSE GetTextStrip(elem)
         IN IF elem # None /\ Truthy(content) /\ PyLen(content) > MinAbstractLen
            THEN Found(content)
            ELSE GenericFrom(page, k + 1)

\* _scrape_arxiv ... _scrape_generic: fetch, parse, look up; any exception
\* (fetch failure after the retries, parser error) is logged and None returned
ScrapeWith(strategy, fetched, page) ==
    IF ~fetched.ok \/ ~page.parses THEN Found(None)
    ELSE IF strategy = "generic" THEN GenericFrom(page, 1)
    ELSE IF strategy = "arxiv" THEN ArxivBody(page)
    ELSE DedicatedBody(page)

AbsentAbstract(s) == [abstract |-> None, source |-> "snippet", success |-> FALSE]
Snippet(s) == [abstract |-> Snip(s), source |-> "snippet", success |-> FALSE]
Scraped(t) == [abstract |-> t, source |-> "scraped", success |-> TRUE]

\* the acceptance test of scrape_abstract: abstract and len(abstract.strip()) > 50
AcceptsAtLeast(t) == Truthy(t) /\ PyLen(Strip(t)) >= MinAbstractLen
Accepts(t) == Truthy(t) /\ PyLen(Strip(t)) > MinAbstractLen

\* PaperScraper.scrape_abstract after the strategy ran: accept the text, or
\* raise ScraperError; the except clause catches every Exception (one raised
\* by the strategy too) and returns the fallback snippet
ScrapeAbstractNoCatch(extract, snip) ==
    IF ~extract.raised /\ Accepts(extract.text)
    THEN [raised |-> FALSE, value |-> Scraped(Strip(extract.text))]
    ELSE [raised |-> TRUE, value |-> Snippet(snip)]
scrape_abstract(extract, snip) ==
    IF ~extract.raised /\ Accepts(extract.text)
    THEN [raised |-> FALSE, value |-> Scraped(Strip(extract.text))]
    ELSE [raised |-> FALSE, value |-> Snippet(snip)]

NoResult == [abstract |-> None, source |-> "", success |-> FALSE]
NoObs == [strategy |-> "", fetched |-> FALSE, attempts |-> 0, fetchErr |-> "none",
          parsed |-> FALSE, strategyRaised |-> FALSE, extracted |-> None,
          found |-> << >>, elsewhere |-> None]
Observe(strategy, fetched, page, extract) ==
    [strategy |-> strategy, fetched |-> fetched.ok, attempts |-> fetched.attempts,
     fetchErr |-> fetched.err, parsed |-> fetched.ok /\ page.parses,
     strategyRaised |-> extract.raised, extracted |-> extract.text,
     found |-> IF fetched.ok THEN page.found ELSE << >>,
     elsewhere |-> IF fetched.ok THEN page.elsewhere ELSE None]

----------------------------------------------------------------------------
(* ScenarioClient: requests *)

\* What one HTTP attempt of the API client can do; "other" is any other
\* exception inside the attempt (a body that is not JSON, for one).
ApiOutcomes == HttpOutcomes \cup {"other"}
ApiScripts == [1..StopAfterAttempt -> ApiOutcomes]

\* the message _make_request wraps an attempt's failure in
ErrMsg(o) ==
    IF o \in {"http4xx", "http429", "http5xx"} THEN "API request failed"
    ELSE IF o \in {"conn", "timeout"} THEN "Network error"
    ELSE "Unexpected error"

\* ScenarioClient._make_request under tenacity: every failure is wrapped in
\* ScenarioAPIError, which the retry policy retries like a RequestException,
\* up to StopAfterAttempt attempts; the last error is re-raised.
_make_request(script) ==
    IF FirstOk(script) > 0
    THEN [ok |-> TRUE, attempts |-> FirstOk(script), msg |-> "", cause |-> ""]
    ELSE [ok |-> FALSE, attempts |-> StopAfterAttempt,
          msg |-> ErrMsg(script[StopAfterAttempt]),
          cause |-> script[StopAfterAttempt]]
\* every way a call of _make_request can end
Requests == {_make_request(script) : script \in ApiScripts}

\* What one attempt of _download_image can do; "oserror" is a failure to
\* write the file, which is no RequestException.
DownloadOutcomes == HttpOutcomes \cup {"oserror"}
DownloadScripts == [1..StopAfterAttempt -> DownloadOutcomes]
FirstFinal(script) ==
    IF \E k \in DOMAIN script : script[k] \in {"ok", "oserror"}
    THEN CHOOSE k \in DOMAIN script :
            /\ script[k] \in {"ok", "oserror"}
            /\ \A j \in 1..(k - 1) : script[j] \notin {"ok", "oserror"}
    ELSE 0
\* ScenarioClient._download_image under tenacity: only RequestException is
\* retried; any other exception leaves at once.
_download_image(script) ==
    IF FirstFinal(script) > 0
    THEN [ok |-> script[FirstFinal(script)] = "ok", attempts |-> FirstFinal(script)]
    ELSE [ok |-> FALSE, attempts |-> StopAfterAttempt]
Downloads == {_download_image(script) : script \in DownloadScripts}

----------------------------------------------------------------------------
(* ScenarioClient: response shapes *)

\* The JSON answering the submit request: not an object at all, or an object
\* whose 'job' is absent, null (or any non-object), or an object with or
\* without 'jobId'; with or without top-level 'jobId' and 'id'.
NotADict == [dict |-> FALSE, job |-> "absent", nested |-> "", jobId |-> "", id |-> ""]
\* no answer received (yet)
NoResponse == [dict |-> FALSE, job |-> "none", nested |-> "", jobId |-> "", id |-> ""]
SubmitShapes ==
    {NotADict} \cup
    {[dict |-> TRUE, job |-> j, nested |-> n, jobId |-> t, id |-> d] :
        j \in {"absent", "null"}, n \in {""}, t \in {"", "J2"}, d \in {"", "J3"}} \cup
    {[dict |-> TRUE, job |-> "object", nested |-> n, jobId |-> t, id |-> d] :
        n \in {"", "J1"}, t \in {"", "J2"}, d \in {"", "J3"}}

\* a value computed from a response: the value, or the exception raised
Val(v) == [exc |-> "", v |-> v]
Exc(e) == [exc |-> e, v |-> ""]

\* response.get('job', {}).get('jobId') or response.get('jobId') or response.get('id')
JobIdOf(resp) ==
    IF ~resp.dict \/ resp.job = "null" THEN Exc("AttributeError")
    ELSE LET nested == IF resp.job = "object" THEN resp.nested ELSE ""
         IN Val(IF nested # "" THEN nested
                ELSE IF resp.jobId # "" THEN resp.jobId
                ELSE resp.id)

\* The JSON answering a status request; `urls` tells whether the answer
\* carries image URLs of its own, next to the asset ids in job.metadata.
Statuses == {"queued", "in-progress", "success", "failure", "", "pending"}
StatusShape(d, j, st, e, p, m, n, u) ==
    [dict |-> d, job |-> j, status |-> st, error |-> e, progress |-> p,
     metadata |-> m, nids |-> n, urls |-> u]
StatusShapes ==
    {StatusShape(FALSE, "absent", "", "", "num", "absent", 0, FALSE),
     StatusShape(TRUE, "absent", "", "", "num", "absent", 0, FALSE),
     StatusShape(TRUE, "null", "", "", "num", "absent", 0, FALSE)}
    \cup {StatusShape(TRUE, "object", "failure", e, "num", "absent", 0, FALSE) : e \in {"", "E1"}}
    \cup {StatusShape(TRUE, "object", st, "", p, "absent", 0, FALSE) :
            st \in {"queued", "in-progress"}, p \in {"num", "bad"}}
    \cup {StatusShape(TRUE, "object", st, "", "num", "absent", 0, FALSE) : st \in {"", "pending"}}
    \cup {StatusShape(TRUE, "object", "success", "", "num", m, 0, u) :
            m \in {"absent", "null"}, u \in BOOLEAN}
    \cup {StatusShape(TRUE, "object", "success", "", "num", "object", n, u) :
            n \in 0..MaxAssets, u \in BOOLEAN}

\* The JSON answering an asset lookup.
AssetShape(d, u, dl, a) == [dict |-> d, url |-> u, downloadUrl |-> dl, asset |-> a]
AssetShapes ==
    {AssetShape(FALSE, "", "", "absent")} \cup
    {AssetShape(TRUE, u, dl, a) :
        u \in {"", "U1"}, dl \in {"", "U2"}, a \in {"absent", "null", "nourl", "U3"}}

\* asset_data.get('url') or asset_data.get('downloadUrl') or
\* asset_data.get('asset', {}).get('url')
ImageUrlOf(a) ==
    IF ~a.dict THEN Exc("AttributeError")
    ELSE IF a.url # "" THEN Val(a.url)
    ELSE IF a.downloadUrl # "" THEN Val(a.downloadUrl)
    ELSE IF a.asset = "null" THEN Exc("AttributeError")
    ELSE Val(IF a.asset = "U3" THEN "U3" ELSE "")

----------------------------------------------------------------------------
(* ScenarioClient: polling and asset resolution *)

Raised(exc, msg, detail) == [kind |-> "raised", exc |-> exc, msg |-> msg, detail |-> detail]
ApiError(msg, detail) == Raised("ScenarioAPIError", msg, detail)
ReturnedFiles == [kind |-> "returned", exc |-> "", msg |-> "", detail |-> ""]

\* What one iteration of the polling loop comes to, given how the status
\* request ended (r) and what it answered (shape):
\*   "reqerror"  _make_request raised ScenarioAPIError; re-raised as it is
\*   "failure"   status 'failure': ScenarioAPIError("Job failed: <error>")
\*   "success"   status 'success': _download_images takes over
\*   "swallowed" another exception (job_data or 'job' not an object, progress
\*               not a number); caught by `except Exception`
\*   "sleep"     any other status: time.sleep(poll_interval)
Verdict(k, st, msg, detail) == [kind |-> k, status |-> st, msg |-> msg, detail |-> detail]
PollVerdictSwallowsFailure(r, shape) ==
    IF ~r.ok THEN Verdict("swallowed", "", "", "")
    ELSE IF ~shape.dict \/ shape.job = "null" THEN Verdict("swallowed", "", "", "")
    ELSE IF shape.job = "absent" THEN Verdict("sleep", "", "", "")
    ELSE IF shape.status = "success" THEN Verdict("success", "success", "", "")
    ELSE IF shape.status = "failure" THEN Verdict("swallowed", "failure", "", "")
    ELSE IF shape.status \in {"queued", "in-progress"} /\ shape.progress = "bad"
         THEN Verdict("swallowed", shape.status, "", "")
    ELSE Verdict("sleep", shape.status, "", "")
PollVerdictUnknownEnds(r, shape) ==
    IF r.ok /\ shape.dict /\ shape.job = "object" /\ shape.status \in {"", "pending"}
    THEN Verdict("failure", shape.status, "Job failed", "Unknown error")
    ELSE PollVerdictSwallowsFailure(r, shape)
PollVerdict(r, shape) ==
    IF ~r.ok THEN Verdict("reqerror", "", r.msg, "")
    ELSE IF ~shape.dict \/ shape.job = "null" THEN Verdict("swallowed", "", "", "")
    ELSE IF shape.job = "absent" THEN Verdict("sleep", "", "", "")
    ELSE IF shape.status = "success" THEN Verdict("success", "success", "", "")
    ELSE IF shape.status = "failure"
         THEN Verdict("failure", "failure", "Job failed",
                      IF shape.error # "" THEN shape.error ELSE "Unknown error")
    ELSE IF shape.status \in {"queued", "in-progress"} /\ shape.progress = "bad"
         THEN Verdict("swallowed", shape.status, "", "")
    ELSE Verdict("sleep", shape.status, "", "")

\* the status a status request read: "none" when the request failed or the
\* answer holds no job object to read it from
StatusRead(r, shape) ==
    IF r.ok /\ shape.dict /\ shape.job = "object" THEN shape.status ELSE "none"

\* time.sleep(poll_interval) at the end of iteration a (0-based) of the loop:
\* the seconds waited
AdaptiveInterval(a) == IF a < 5 THEN 2 ELSE IF a < 15 THEN 3 ELSE poll_interval
SleepAfter(a) == poll_interval

\* for attempt in range(max_attempts): the loop is over after n iterations
PollingExhaustedLate(n) == n > max_attempts
PollingExhausted(n) == n >= max_attempts
\* if attempt == max_attempts - 1, in the `except Exception` clause
NeverLastAttempt(a) == FALSE
IsLastAttempt(a) == a = max_attempts - 1

\* the head of _download_images: the asset ids of the job, or the error;
\* nothing else of the job data is read
AssetIdsUnlessUrls(shape) ==
    IF shape.metadata = "null" THEN Exc("AttributeError")
    ELSE IF shape.metadata = "absent" \/ shape.urls THEN Val(0)
    ELSE Val(shape.nids)
AssetIdsOf(shape) ==
    IF shape.metadata = "null" THEN Exc("AttributeError")
    ELSE IF shape.metadata = "absent" THEN Val(0)
    ELSE Val(shape.nids)

\* Path(self.output_dir) / f"generated_image_{timestamp}_{i+1}.png", by its index
FilePathOfJob(i) == [dir |-> "output", seq |-> 1]
FilePath(i) == [dir |-> "output", seq |-> i + 1]

\* the except clause around one asset: log and continue with the next asset
AssetErrorAborts == "abort"
AssetErrorPolicy == "continue"

\* the tail of _download_images
DownloadImagesReturnsEmpty(files) == ReturnedFiles
DownloadImagesResult(files) ==
    IF files = << >> THEN ApiError("Failed to download any images", "")
    ELSE ReturnedFiles

----------------------------------------------------------------------------
(* The four functions under tenacity's @retry, attempt by attempt *)

Wrappers == {"PaperScraper._fetch_page", "ScenarioClient._make_request",
             "ScenarioClient._download_image", "SerperClient._make_request"}

\* what one attempt, one run of the function's body, can do
AttemptOutcomes(w) ==
    IF w = "PaperScraper._fetch_page" THEN HttpOutcomes \cup {"invalid"}
    ELSE IF w = "ScenarioClient._download_image" THEN DownloadOutcomes
    ELSE ApiOutcomes

\* the type of the exception a failed attempt leaves the body with: the two
\* _make_request bodies wrap every failure in the client's own error type
ExceptionOf(w, o) ==
    IF w = "ScenarioClient._make_request" THEN "ScenarioAPIError"
    ELSE IF w = "SerperClient._make_request" THEN "SerperAPIError"
    ELSE IF o = "oserror" THEN "OSError"
    ELSE "RequestException"

\* Whether the remote end processed the request of an attempt that ended in
\* o: it did when the attempt got its answer; an attempt that timed out after
\* 30 seconds, lost the connection or could not read the answer may have been
\* processed or not; an error status is the remote end refusing the request.
Processed(o) ==
    IF o = "ok" THEN {TRUE}
    ELSE IF o \in {"timeout", "conn", "other"} THEN BOOLEAN
    ELSE {FALSE}

\* retry=retry_if_exception_type(...)
RetriedTypes(w) ==
    IF w = "ScenarioClient._make_request" THEN {"RequestException", "ScenarioAPIError"}
    ELSE IF w = "SerperClient._make_request" THEN {"RequestException", "SerperAPIError"}
    ELSE {"RequestException"}

\* stop=stop_after_attempt(3), asked after attempt number n failed
StopsOneLate(n) == n > StopAfterAttempt
stop_after_attempt(n) == n >= StopAfterAttempt

NoError == [type |-> "", cause |-> ""]
RetryIdle ==
    /\ wrapper = "" /\ rpc = "idle" /\ attempt_number = 0 /\ history = << >>
    /\ raised_error = NoError /\ waits = 0 /\ accepted = 0

----------------------------------------------------------------------------
(* The HTTP API: requests, what the outside gives, handlers *)

\* request bodies that pass validation (models.py); date_range "none" is an
\* absent or null date_range
Queries == {"AI"}
DateRanges == {"none", "week", ""}
NoRequest == [query |-> "", num |-> 0, date_range |-> "none", generate_images |-> FALSE]
SearchRequest(q, n, d) ==
    [query |-> q, num |-> n, date_range |-> d, generate_images |-> FALSE]
ProcessPapersRequest(q, n, d, g) ==
    [query |-> q, num |-> n, date_range |-> d, generate_images |-> g]
\* besides the well-formed requests: one with the empty query and one whose
\* count is below the field's minimum
SearchRequests ==
    {SearchRequest(q, n, d) : q \in Queries, n \in {1, MaxFound}, d \in DateRanges}
    \cup {SearchRequest("", 1, "none"), SearchRequest("AI", 0, "none")}
ProcessRequests ==
    {ProcessPapersRequest(q, n, d, g) :
        q \in Queries, n \in {1, MaxFound}, d \in DateRanges, g \in BOOLEAN}
    \cup {ProcessPapersRequest("", 1, "none", FALSE),
          ProcessPapersRequest("AI", 0, "none", FALSE)}

\* pydantic's validation of a request body: query is a required str with no
\* length constraint, the count has ge=1 and le=most
Validates(req, most) == req.num >= 1 /\ req.num <= most

\* What the outside gives one request: how SerperClient._make_request ends
\* and, per paper the search service lists, where batch_scrape takes the
\* abstract from and how ScenarioClient.generate_image ends for it.
PaperFates ==
    {[source |-> "scraped", image |-> "files"],
     [source |-> "snippet", image |-> "files"],
     [source |-> "scraped", image |-> "error"]}
World(s, f) == [search |-> s, fates |-> f]
NoWorld == World("none", << >>)
\* /api/search neither scrapes nor generates: only how the request ends and
\* how many papers are listed matter to it
SearchWorlds ==
    {World("SerperAPIError", << >>)}
    \cup {World("ok", [i \in 1..n |-> [source |-> "", image |-> ""]]) : n \in 0..MaxFound}
\* how ScenarioClient.generate_image ends for POST /api/generate-image: it
\* returns the files, raises ScenarioAPIError, or lets another exception out
ImageOutcomes == {"files", "ScenarioAPIError", "AttributeError"}
ImageWorld(o) == World("none", <<[source |-> "", image |-> o]>>)
Worlds ==
    {World("SerperAPIError", << >>)}
    \cup {World("ok", f) : f \in UNION {[1..n -> PaperFates] : n \in 0..MaxFound}}

\* answers
NoBody == [query |-> "", total_papers |-> 0, successful |-> 0, papers |-> << >>]
Answer(code, detail, body) == [status |-> code, detail |-> detail, body |-> body]
NoFile == [exists |-> FALSE, content |-> NoBody]
NoHealth ==
    [status |-> "", version |-> "",
     services |-> [serper |-> "", scenario |-> "", scraper |-> ""]]
NoHttp ==
    [endpoint |-> "", request |-> NoRequest, status |-> 0, detail |-> "",
     body |-> NoBody, health |-> NoHealth]
Exchange(endpoint, req, a) ==
    [endpoint |-> endpoint, request |-> req, status |-> a.status,
     detail |-> a.detail, body |-> a.body, health |-> NoHealth]
\* FastAPI's answer to a body that fails validation; the handler is not called
RequestValidationError == Answer(422, "Unprocessable Entity", NoBody)
NoRun == [outcome |-> "none", completed |-> FALSE, response |-> NoBody]

ApiIdle ==
    /\ environ = [serper |-> FALSE, scenario |-> FALSE]
    /\ serper_client = "None" /\ scenario_client = "None"
    /\ last_result_file = NoFile /\ http = NoHttp /\ trace = << >>
    /\ world = NoWorld /\ last_run = NoRun

\* get_serper_client / get_scenario_client: the global client, constructed on
\* first use; construction raises when the key is missing, and the function
\* turns that into HTTPException(500)
get_serper_client ==
    IF serper_client = "None" /\ ~environ.serper
    THEN [exc |-> "HTTPException", client |-> "None"]
    ELSE [exc |-> "", client |-> "client"]
get_scenario_client ==
    IF scenario_client = "None" /\ ~environ.scenario
    THEN [exc |-> "HTTPException", client |-> "None"]
    ELSE [exc |-> "", client |-> "client"]

\* the parameters of SerperClient.search_scholar, and the keyword arguments
\* both handlers call it with
SearchScholarParams == {"query", "num_results"}
AppSearchKwargs == {"query", "num_results", "date_range"}

Take(seq, n) == SubSeq(seq, 1, IF Len(seq) < n THEN Len(seq) ELSE n)

\* one call client.search_scholar(**kwargs): Python binds the arguments
\* before the body runs; the body makes the request and cuts the parsed
\* papers to num_results
search_scholar(kwargs, num_results, w) ==
    IF ~(kwargs \subseteq SearchScholarParams)
    THEN [exc |-> "TypeError", requested |-> FALSE, papers |-> << >>]
    ELSE IF w.search # "ok"
    THEN [exc |-> "SerperAPIError", requested |-> TRUE, papers |-> << >>]
    ELSE [exc |-> "", requested |-> TRUE, papers |-> Take(w.fates, num_results)]

Listed(i, src) ==
    [paper |-> i, abstract_source |-> src, image_paths |-> << >>,
     processing_success |-> FALSE]
Stage(name, i) == [stage |-> name, paper |-> i]

\* POST /api/search
search_papers(req, w) ==
    LET c == get_serper_client
        s == search_scholar(AppSearchKwargs, req.num, w)
        stages == IF c.exc = "" /\ s.requested THEN <<Stage("search", 0)>> ELSE << >>
    IN IF c.exc # ""
       THEN [answer |-> Answer(500, "Internal server error", NoBody), stages |-> stages]
       ELSE IF s.exc = "SerperAPIError"
       THEN [answer |-> Answer(503, "Search service error", NoBody), stages |-> stages]
       ELSE IF s.exc # ""
       THEN [answer |-> Answer(500, "Internal server error", NoBody), stages |-> stages]
       ELSE [answer |-> Answer(200, "",
                         [query |-> req.query, total_papers |-> Len(s.papers),
                          successful |-> 0,
                          papers |-> [i \in 1..Len(s.papers) |-> Listed(i, "")]]),
             stages |-> stages]

\* the body of the per-paper loop of process_papers, with its try/except
ImagePath(i) == [dir |-> "output", paper |-> i]
ProcessedPaper(i, src, paths, ok) ==
    [paper |-> i, abstract_source |-> src, image_paths |-> paths,
     processing_success |-> ok]
ProcessOne(i, fate, req) ==
    IF ~req.generate_images THEN ProcessedPaper(i, fate.source, << >>, TRUE)
    ELSE IF get_scenario_client.exc # "" \/ fate.image # "files"
    THEN ProcessedPaper(i, fate.source, << >>, FALSE)
    ELSE ProcessedPaper(i, fate.source, <<ImagePath(i)>>, TRUE)

\* the outside calls a run over n papers makes, in program order
ProcessStages(n, req) ==
    <<Stage("search", 0)>>
    \o [i \in 1..n |-> Stage("scrape", i)]
    \o (IF req.generate_images /\ get_scenario_client.exc = ""
        THEN [i \in 1..n |-> Stage("image", i)] ELSE << >>)

\* POST /api/process
process_papers(req, w) ==
    LET c == get_serper_client
        s == search_scholar(AppSearchKwargs, req.num, w)
        n == Len(s.papers)
        done == [i \in 1..n |-> ProcessOne(i, s.papers[i], req)]
        body == [query |-> req.query, total_papers |-> n,
                 successful |-> Cardinality({i \in 1..n : done[i].processing_success}),
                 papers |-> done]
    IN IF c.exc # ""
       THEN [answer |-> Answer(500, "Pipeline error", NoBody), stages |-> << >>,
             saves |-> FALSE, scenario |-> scenario_client]
       ELSE IF s.exc # ""
       THEN [answer |-> Answer(500, "Pipeline error", NoBody),
             stages |-> IF s.requested THEN <<Stage("search", 0)>> ELSE << >>,
             saves |-> FALSE, scenario |-> scenario_client]
       ELSE [answer |-> Answer(200, "", body), stages |-> ProcessStages(n, req),
             saves |-> TRUE,
             scenario |-> IF req.generate_images /\ n > 0
                          THEN get_scenario_client.client ELSE scenario_client]

\* POST /api/generate-image, given how client.generate_image ends
GenerateImageResponse(paths) ==
    [query |-> "", total_papers |-> 0, successful |-> 0,
     papers |-> <<ProcessedPaper(0, "", paths, Len(paths) > 0)>>]
generate_image(o) ==
    IF get_scenario_client.exc # ""
    THEN Answer(500, "Internal server error", NoBody)
    ELSE IF o = "ScenarioAPIError"
    THEN Answer(503, "Image generation service error", NoBody)
    ELSE IF o # "files"
    THEN Answer(500, "Internal server error", NoBody)
    ELSE Answer(200, "", GenerateImageResponse(<<ImagePath(0)>>))

\* GET /api/health
ServiceState(c) == IF c.exc = "" THEN "ok" ELSE "error"
HealthyIfAny(services) ==
    IF \E k \in DOMAIN services : services[k] = "ok" THEN "healthy" ELSE "degraded"
HealthStatus(services) ==
    IF \A k \in DOMAIN services : services[k] = "ok" THEN "healthy" ELSE "degraded"
health_check ==
    LET services == [serper |-> ServiceState(get_serper_client),
                     scenario |-> ServiceState(get_scenario_client),
                     scraper |-> "ok"]
    IN [status |-> HealthStatus(services), version |-> "1.0.0", services |-> services]

\* save_last_result / load_last_result
save_last_result(data) == [exists |-> TRUE, content |-> data]
load_last_result == IF last_result_file.exists THEN last_result_file.content ELSE NoBody

\* GET /api/last-result
LastResultAlwaysFound == Answer(200, "", load_last_result)
get_last_result ==
    IF load_last_result # NoBody THEN Answer(200, "", load_last_result)
    ELSE Answer(404, "No previous results found", NoBody)

----------------------------------------------------------------------------
(* ExtractSpec: one call of scrape_abstract *)

ScrapeIdle ==
    /\ url = EmptyLink /\ fallback_snippet = "" /\ spc = "idle"
    /\ result = NoResult /\ obs = NoObs
BatchIdle ==
    /\ papers = << >> /\ request = << >> /\ bidx = 0 /\ bpc = "idle"
    /\ returned = << >> /\ response = [status |-> 0, total |-> 0, successful_scrapes |-> 0]
    /\ in_flight = {}
NoOutcome == [kind |-> "none", exc |-> "", msg |-> "", detail |-> ""]
NoRead == [kind |-> "none", status |-> "", slept |-> FALSE, cause |-> "",
           waited |-> 0, urls |-> FALSE, nids |-> 0]
GenIdle ==
    /\ gpc = "idle" /\ submit_response = NoResponse /\ job_id = "" /\ attempt = 0
    /\ calls = [submit |-> 0, status |-> 0, asset |-> 0, download |-> 0]
    /\ lastRead = NoRead
    /\ reads = [allNonTerminal |-> TRUE, terminal |-> "none", remoteMsg |-> ""]
    /\ asset_ids = << >> /\ ai = 0 /\ image_url = ""
    /\ downloaded_files = << >> /\ assetLog = << >> /\ outcome = NoOutcome

\* the two jobs before any of them reached _download_images
NoJob == [pc |-> "idle", timestamp |-> 0, assets |-> 0, i |-> 0,
          downloaded_files |-> << >>]
DirIdle ==
    /\ now = 0 /\ concurrent = FALSE /\ jobs = [j \in 1..2 |-> NoJob]
    /\ output_dir = {}
\* no reference yet
NoReference == [kind |-> "none", bytes |-> 0]
ImgIdle ==
    /\ image_path = [exists |-> FALSE, size |-> 0, readable |-> FALSE]
    /\ img_kwargs = {}
    /\ ipc = "idle" /\ reference = NoReference /\ sent = << >>
    /\ img_result = "none"
\* a poller: "poll" while it polls, the status requests it made, and the
\* class of its outcome once "done"
Poller(pc, n, class) == [pc |-> pc, requests |-> n, class |-> class]
TwinIdle ==
    /\ backend = Poller("idle", 0, "none") /\ cli = Poller("idle", 0, "none")
    /\ wellformed = TRUE
SideIdle == DirIdle /\ ImgIdle /\ TwinIdle
CoreIdle == ScrapeIdle /\ BatchIdle /\ GenIdle /\ RetryIdle /\ ApiIdle

ExtractInit ==
    /\ url \in Links /\ fallback_snippet \in Snippets /\ spc = "ready"
    /\ result = NoResult /\ obs = NoObs
    /\ BatchIdle /\ GenIdle /\ RetryIdle /\ ApiIdle /\ SideIdle

\* the whole call: dispatch on the host, run the strategy against what the
\* network and the page give, apply the threshold
CallScrapeAbstract ==
    /\ spc = "ready"
    /\ \E fetched \in Fetches(url) :
         LET strategy == StrategyFor(Netloc(url))
         IN \E page \in IF fetched.ok THEN Pages(strategy) ELSE {Unparseable} :
              LET extract == ScrapeWith(strategy, fetched, page)
                  r == scrape_abstract(extract, fallback_snippet)
              IN /\ spc' = IF r.raised THEN "raised" ELSE "returned"
                 /\ result' = r.value
                 /\ obs' = Observe(strategy, fetched, page, extract)
    /\ UNCHANGED <<url, fallback_snippet, batchVars, genVars, retryVars, apiVars, sideVars>>

ExtractNext == CallScrapeAbstract
ExtractSpec == ExtractInit /\ [][ExtractNext]_vars

----------------------------------------------------------------------------
(* BatchSpec: one POST /api/scrape, running PaperScraper.batch_scrape *)

\* a posted paper, before scraping (PaperResponse defaults)
Paper(t, l, s) ==
    [title |-> t, link |-> l, snippet |-> s,
     abstract |-> None, abstract_source |-> "", scrape_success |-> FALSE]

\* the links and pages of a batch: a few of each kind
BatchLinks == {EmptyLink, Link(FALSE, {}), Link(FALSE, {"arxiv.org"})}
BatchArxivPages == PagesOf(1, 0, 1)
BatchGenericPages == PagesOf(NumSelectors, 2, 1)
BatchPages(strategy) ==
    IF strategy = "arxiv" THEN BatchArxivPages ELSE BatchGenericPages

BatchInit ==
    /\ \E n \in 0..MaxPapers :
         \E ls \in [1..n -> BatchLinks], ss \in [1..n -> Snippets] :
            request = [i \in 1..n |-> Paper(i, ls[i], ss[i])]
    /\ papers = request
    /\ bidx = 0 /\ bpc = "loop" /\ returned = << >>
    /\ response = [status |-> 0, total |-> 0, successful_scrapes |-> 0]
    /\ in_flight = {}
    /\ ScrapeIdle /\ GenIdle /\ RetryIdle /\ ApiIdle /\ SideIdle

\* batch_scrape's three assignments into the paper being processed
WriteFirst(ps, i, r) ==
    [ps EXCEPT ![1].abstract = r.abstract,
               ![1].abstract_source = r.source,
               ![1].scrape_success = r.success]
WriteShared(ps, i, r) ==
    [j \in DOMAIN ps |->
        IF j >= i THEN [ps[j] EXCEPT !.abstract = r.abstract,
                                     !.abstract_source = r.source,
                                     !.scrape_success = r.success]
        ELSE ps[j]]
WriteResult(ps, i, r) ==
    [ps EXCEPT ![i].abstract = r.abstract,
               ![i].abstract_source = r.source,
               ![i].scrape_success = r.success]

\* sum(1 for p in papers if p.get('scrape_success'))
SuccessCount(ps) == Cardinality({i \in DOMAIN ps : ps[i].scrape_success})

\* one iteration of batch_scrape's loop: scrape paper bidx+1 and store the
\* result in it.  An exception leaving scrape_abstract would leave
\* batch_scrape too and reach the endpoint's except clause (HTTP 500).
BatchScrapeStep ==
    /\ bpc = "loop" /\ bidx < Len(papers)
    /\ LET i == bidx + 1
           paper == papers[i]
           strategy == StrategyFor(Netloc(paper.link))
       IN \E fetched \in Fetches(paper.link) :
            \E page \in IF fetched.ok THEN BatchPages(strategy) ELSE {Unparseable} :
              LET r == scrape_abstract(ScrapeWith(strategy, fetched, page), paper.snippet)
              IN IF r.raised
                 THEN /\ bpc' = "done"
                      /\ response' = [status |-> 500, total |-> 0, successful_scrapes |-> 0]
                      /\ UNCHANGED <<papers, bidx, returned>>
                 ELSE /\ papers' = WriteResult(papers, i, r.value)
                      /\ returned' = Append(returned, r.value)
                      /\ bidx' = i
                      /\ UNCHANGED <<bpc, response>>
    /\ UNCHANGED <<request, in_flight, scrapeVars, genVars, retryVars, apiVars, sideVars>>

\* the loop is over: batch_scrape returns the list, the endpoint answers
ScrapeRespond ==
    /\ bpc = "loop" /\ bidx = Len(papers)
    /\ bpc' = "done"
    /\ response' = [status |-> 200, total |-> Len(papers),
                    successful_scrapes |-> SuccessCount(papers)]
    /\ UNCHANGED <<papers, request, bidx, returned, in_flight,
                   scrapeVars, genVars, retryVars, apiVars, sideVars>>

BatchNext == BatchScrapeStep \/ ScrapeRespond
BatchSpec == BatchInit /\ [][BatchNext]_vars

----------------------------------------------------------------------------
(* PoolSpec: batch_scrape with the call of scrape_abstract for a paper and  *)
(* its return as two steps; bidx counts the papers whose call has started   *)

\* a batch of up to MaxBatch papers with generic links
PoolInit ==
    /\ \E n \in 0..MaxBatch :
         request = [i \in 1..n |-> Paper(i, Link(FALSE, {}), "sA")]
    /\ papers = request
    /\ bidx = 0 /\ bpc = "loop" /\ returned = << >>
    /\ response = [status |-> 0, total |-> 0, successful_scrapes |-> 0]
    /\ in_flight = {}
    /\ ScrapeIdle /\ GenIdle /\ RetryIdle /\ ApiIdle /\ SideIdle

\* what scrape_abstract can return for a paper
ScrapeResults(paper) ==
    LET strategy == StrategyFor(Netloc(paper.link))
    IN {scrape_abstract(ScrapeWith(strategy, f, pg), paper.snippet).value :
           f \in Fetches(paper.link), pg \in BatchPages(strategy)}

\* the for loop of batch_scrape: the body for the next paper starts when the
\* body for the previous one is over
StartsAtOnce(running) == TRUE
CanStart(running) == running = {}

\* the loop reaches the next paper and calls scrape_abstract for it
StartExtraction ==
    /\ bpc = "loop" /\ bidx < Len(papers) /\ CanStart(in_flight)
    /\ bidx' = bidx + 1
    /\ in_flight' = in_flight \cup {bidx + 1}
    /\ UNCHANGED <<papers, request, bpc, returned, response,
                   scrapeVars, genVars, retryVars, apiVars, sideVars>>

\* a call of scrape_abstract returns and its result is stored in its paper
FinishExtraction ==
    /\ bpc = "loop"
    /\ \E i \in in_flight :
         \E r \in ScrapeResults(papers[i]) :
            /\ papers' = WriteResult(papers, i, r)
            /\ returned' = Append(returned, r)
            /\ in_flight' = in_flight \ {i}
    /\ UNCHANGED <<request, bidx, bpc, response,
                   scrapeVars, genVars, retryVars, apiVars, sideVars>>

\* every paper is done: batch_scrape returns the list, the endpoint answers
PoolRespond ==
    /\ bpc = "loop" /\ bidx = Len(papers) /\ in_flight = {}
    /\ bpc' = "done"
    /\ response' = [status |-> 200, total |-> Len(papers),
                    successful_scrapes |-> SuccessCount(papers)]
    /\ UNCHANGED <<papers, request, bidx, returned, in_flight,
                   scrapeVars, genVars, retryVars, apiVars, sideVars>>

PoolNext == StartExtraction \/ FinishExtraction \/ PoolRespond
PoolSpec == PoolInit /\ [][PoolNext]_vars

----------------------------------------------------------------------------
(* GenSpec: one call of ScenarioClient.generate_image *)

GenInit ==
    /\ gpc = "submit" /\ submit_response = NoResponse /\ job_id = "" /\ attempt = 0
    /\ calls = [submit |-> 0, status |-> 0, asset |-> 0, download |-> 0]
    /\ lastRead = NoRead
    /\ reads = [allNonTerminal |-> TRUE, terminal |-> "none", remoteMsg |-> ""]
    /\ asset_ids = << >> /\ ai = 0 /\ image_url = ""
    /\ downloaded_files = << >> /\ assetLog = << >> /\ outcome = NoOutcome
    /\ ScrapeIdle /\ BatchIdle /\ RetryIdle /\ ApiIdle /\ SideIdle

\* generate_image ends: it returns the files or raises
Finish(o) == gpc' = "done" /\ outcome' = o

\* generate_image up to the call of _poll_and_download: POST the job, take
\* the job id from the response.  ScenarioAPIError is logged and re-raised;
\* any other exception leaves generate_image as it is.
SubmitJob ==
    /\ gpc = "submit"
    /\ \E r \in Requests :
         /\ calls' = [calls EXCEPT !.submit = @ + 1]
         /\ IF ~r.ok
            THEN /\ Finish(ApiError(r.msg, ""))
                 /\ UNCHANGED <<submit_response, job_id>>
            ELSE \E resp \in SubmitShapes :
                   LET id == JobIdOf(resp)
                   IN /\ submit_response' = resp
                      /\ IF id.exc # ""
                         THEN Finish(Raised(id.exc, "", "")) /\ UNCHANGED job_id
                         ELSE IF id.v = ""
                         THEN Finish(ApiError("Job ID not found", "")) /\ UNCHANGED job_id
                         ELSE gpc' = "poll" /\ job_id' = id.v /\ UNCHANGED outcome
    /\ UNCHANGED <<attempt, lastRead, reads, asset_ids, ai, image_url,
                   downloaded_files, assetLog, scrapeVars, batchVars, retryVars, apiVars, sideVars>>

\* one iteration of the loop of _poll_and_download, with what follows it when
\* it is the last one (the timeout raise) or when it reads 'success' (the
\* head of _download_images)
PollAttempt ==
    /\ gpc = "poll" /\ ~PollingExhausted(attempt)
    /\ \E r \in Requests :
       \E shape \in IF r.ok THEN StatusShapes ELSE {StatusShape(FALSE, "absent", "", "", "num", "absent", 0, FALSE)} :
         LET v == PollVerdict(r, shape)
             ids == AssetIdsOf(shape)
         IN /\ calls' = [calls EXCEPT !.status = @ + 1]
            /\ lastRead' = [kind |-> v.kind, status |-> v.status,
                            slept |-> v.kind = "sleep", cause |-> r.cause,
                            waited |-> IF v.kind = "sleep" THEN SleepAfter(attempt) ELSE 0,
                            urls |-> shape.urls, nids |-> shape.nids]
            /\ reads' = [allNonTerminal |-> reads.allNonTerminal /\ v.kind = "sleep",
                         terminal |-> IF StatusRead(r, shape) \in {"success", "failure"}
                                      THEN StatusRead(r, shape) ELSE reads.terminal,
                         remoteMsg |-> IF StatusRead(r, shape) = "failure"
                                       THEN shape.error ELSE reads.remoteMsg]
            /\ CASE v.kind = "reqerror" ->
                      /\ Finish(ApiError(v.msg, ""))
                      /\ UNCHANGED <<attempt, asset_ids>>
                 [] v.kind = "failure" ->
                      /\ Finish(ApiError(v.msg, v.detail))
                      /\ UNCHANGED <<attempt, asset_ids>>
                 [] v.kind = "success" ->
                      /\ UNCHANGED attempt
                      /\ IF ids.exc # ""
                         THEN Finish(ApiError("Error processing images", ""))
                              /\ UNCHANGED asset_ids
                         ELSE IF ids.v = 0
                         THEN Finish(ApiError("No images found", ""))
                              /\ UNCHANGED asset_ids
                         ELSE /\ asset_ids' = [i \in 1..ids.v |-> i]
                              /\ gpc' = "lookup" /\ UNCHANGED outcome
                 [] v.kind = "swallowed" ->
                      /\ UNCHANGED asset_ids
                      /\ IF IsLastAttempt(attempt)
                         THEN Finish(ApiError("Polling failed", "")) /\ UNCHANGED attempt
                         ELSE attempt' = attempt + 1 /\ UNCHANGED <<gpc, outcome>>
                 [] v.kind = "sleep" ->
                      /\ UNCHANGED asset_ids
                      /\ attempt' = attempt + 1
                      /\ IF PollingExhausted(attempt + 1)
                         THEN Finish(ApiError("Job timeout", ""))
                         ELSE UNCHANGED <<gpc, outcome>>
    /\ UNCHANGED <<submit_response, job_id, ai, image_url, downloaded_files,
                   assetLog, scrapeVars, batchVars, retryVars, apiVars, sideVars>>

\* the loop of _download_images goes on to the next asset, or is over and
\* the tail of _download_images decides the result
NextAsset(files, what) ==
    /\ downloaded_files' = files
    /\ assetLog' = Append(assetLog, what)
    /\ ai' = ai + 1
    /\ image_url' = ""
    /\ IF ai + 1 = Len(asset_ids)
       THEN Finish(DownloadImagesResult(files))
       ELSE gpc' = "lookup" /\ UNCHANGED outcome

\* an exception inside one asset's try block
AssetFailed(what) ==
    IF AssetErrorPolicy = "continue"
    THEN NextAsset(downloaded_files, what)
    ELSE /\ Finish(ApiError("Error processing images", ""))
         /\ assetLog' = Append(assetLog, what)
         /\ UNCHANGED <<ai, image_url, downloaded_files>>

\* first half of one iteration of _download_images: look the asset up and
\* find its URL
LookupAsset ==
    /\ gpc = "lookup"
    /\ \E r \in Requests :
         /\ calls' = [calls EXCEPT !.asset = @ + 1]
         /\ IF ~r.ok THEN AssetFailed("lookup_failed")
            ELSE \E a \in AssetShapes :
                   LET u == ImageUrlOf(a)
                   IN IF u.exc # "" THEN AssetFailed("bad_asset_data")
                      ELSE IF u.v = "" THEN NextAsset(downloaded_files, "no_url")
                      ELSE /\ gpc' = "download" /\ image_url' = u.v
                           /\ UNCHANGED <<ai, downloaded_files, assetLog, outcome>>
    /\ UNCHANGED <<submit_response, job_id, attempt, lastRead, reads, asset_ids,
                   scrapeVars, batchVars, retryVars, apiVars, sideVars>>

\* second half: download the image to its file and record the path
DownloadAsset ==
    /\ gpc = "download"
    /\ \E d \in Downloads :
         /\ calls' = [calls EXCEPT !.download = @ + 1]
         /\ IF d.ok
            THEN NextAsset(Append(downloaded_files, FilePath(ai)), "ok")
            ELSE AssetFailed("download_failed")
    /\ UNCHANGED <<submit_response, job_id, attempt, lastRead, reads, asset_ids,
                   scrapeVars, batchVars, retryVars, apiVars, sideVars>>

GenNext == SubmitJob \/ PollAttempt \/ LookupAsset \/ DownloadAsset
GenSpec == GenInit /\ [][GenNext]_vars

----------------------------------------------------------------------------
(* RetrySpec: one call of one of the four functions under @retry *)

RetryInit ==
    /\ wrapper \in Wrappers /\ rpc = "attempt" /\ attempt_number = 0
    /\ history = << >> /\ raised_error = NoError /\ waits = 0
    /\ accepted = 0
    /\ ScrapeIdle /\ BatchIdle /\ GenIdle /\ ApiIdle /\ SideIdle

\* one attempt of function w and what tenacity does with its outcome: return
\* the result, raise the error (reraise=True), or wait and go round again
Attempt(w) ==
    /\ wrapper = w /\ rpc = "attempt"
    /\ \E o \in AttemptOutcomes(w) :
         /\ attempt_number' = attempt_number + 1
         /\ history' = Append(history, o)
         /\ \E p \in Processed(o) : accepted' = accepted + (IF p THEN 1 ELSE 0)
         /\ IF o = "ok"
            THEN rpc' = "returned" /\ UNCHANGED <<raised_error, waits>>
            ELSE IF \/ ExceptionOf(w, o) \notin RetriedTypes(w)
                    \/ stop_after_attempt(attempt_number + 1)
            THEN /\ rpc' = "raised"
                 /\ raised_error' = [type |-> ExceptionOf(w, o), cause |-> o]
                 /\ UNCHANGED waits
            ELSE /\ rpc' = "attempt" /\ waits' = waits + 1
                 /\ UNCHANGED raised_error
    /\ UNCHANGED <<wrapper, scrapeVars, batchVars, genVars, apiVars, sideVars>>

FetchPageAttempt == Attempt("PaperScraper._fetch_page")
ScenarioRequestAttempt == Attempt("ScenarioClient._make_request")
DownloadImageAttempt == Attempt("ScenarioClient._download_image")
SerperRequestAttempt == Attempt("SerperClient._make_request")

RetryNext ==
    \/ FetchPageAttempt
    \/ ScenarioRequestAttempt
    \/ DownloadImageAttempt
    \/ SerperRequestAttempt
RetrySpec == RetryInit /\ [][RetryNext]_vars

----------------------------------------------------------------------------
(* DirSpec: two calls of generate_image whose jobs succeeded, writing their *)
(* images to the same output directory, side by side (two server processes) *)
(* or one after the other (the papers of one /api/process run)              *)

DirInit ==
    /\ now = 0 /\ concurrent \in BOOLEAN
    /\ jobs = [j \in 1..2 |-> [NoJob EXCEPT !.pc = "polling"]]
    /\ output_dir = {}
    /\ CoreIdle /\ ImgIdle /\ TwinIdle

\* datetime.now().strftime("%Y%m%d_%H%M%S"): the clock read to the second
StrfTime(t) == t

\* the path of asset i (0-based) of a job whose timestamp is ts
StampedPath(ts, i) == [timestamp |-> ts, file |-> FilePath(i)]

\* with open(filepath, 'wb'): the file is created or truncated
WriteFile(path, j) ==
    {f \in output_dir : f.path # path} \cup {[path |-> path, from |-> j]}

JobDone(j) == jobs[j].pc \in {"returned", "raised"}

\* a second goes by
Tick ==
    /\ now < MaxClock
    /\ \E j \in 1..2 : ~JobDone(j)
    /\ now' = now + 1
    /\ UNCHANGED <<concurrent, jobs, output_dir, coreVars, imgVars, twinVars>>

\* _download_images up to its loop: the asset identifiers are read and the
\* timestamp is taken, once for the job
BeginDownloadImages(j) ==
    /\ jobs[j].pc = "polling"
    /\ concurrent \/ \A k \in 1..(j - 1) : JobDone(k)
    /\ \E n \in 0..MaxAssets :
         jobs' = [jobs EXCEPT ![j] =
                    IF n = 0 THEN [@ EXCEPT !.pc = "raised"]
                    ELSE [@ EXCEPT !.pc = "assets", !.assets = n,
                                   !.timestamp = StrfTime(now)]]
    /\ UNCHANGED <<now, concurrent, output_dir, coreVars, imgVars, twinVars>>

\* one round of the loop over the assets: the image is written to its path,
\* or the asset is skipped (no URL, or an exception logged); after the last
\* asset the files are returned, or ScenarioAPIError is raised for none
DownloadInto(j) ==
    /\ jobs[j].pc = "assets"
    /\ \E written \in BOOLEAN :
         LET job == jobs[j]
             path == StampedPath(job.timestamp, job.i)
             files == IF written THEN Append(job.downloaded_files, path)
                      ELSE job.downloaded_files
             last == job.i + 1 = job.assets
         IN /\ jobs' = [jobs EXCEPT ![j] =
                         [@ EXCEPT !.i = job.i + 1, !.downloaded_files = files,
                                   !.pc = IF ~last THEN "assets"
                                          ELSE IF files = << >> THEN "raised"
                                          ELSE "returned"]]
            /\ output_dir' = IF written THEN WriteFile(path, j) ELSE output_dir
    /\ UNCHANGED <<now, concurrent, coreVars, imgVars, twinVars>>

FirstJobBegins == BeginDownloadImages(1)
SecondJobBegins == BeginDownloadImages(2)
FirstJobDownloads == DownloadInto(1)
SecondJobDownloads == DownloadInto(2)
DirNext ==
    \/ Tick
    \/ FirstJobBegins
    \/ SecondJobBegins
    \/ FirstJobDownloads
    \/ SecondJobDownloads
DirSpec == DirInit /\ [][DirNext]_vars

----------------------------------------------------------------------------
(* Img2ImgSpec: one call of ScenarioImg2ImgGenerator.generate_image_img2img *)
(* (src/img2img_generator.py) on a reference image of any size             *)

\* 10 * 1024 * 1024
SizeLimit == 10485760
FileSizes == {0} \cup ((SizeLimit - SizeMargin)..(SizeLimit + SizeMargin))

Img2ImgInit ==
    /\ image_path \in [exists : BOOLEAN, size : FileSizes, readable : BOOLEAN]
    /\ image_path.exists \/ (image_path.size = 0 /\ ~image_path.readable)
    /\ img_kwargs \in SUBSET {"negative_prompt"}
    /\ ipc = "upload" /\ reference = NoReference /\ sent = << >>
    /\ img_result = "none"
    /\ CoreIdle /\ DirIdle /\ TwinIdle

\* one POST: the bytes of the reference image in its body, the optional keys
\* of the payload, and how it was answered
Post(endpoint, bytes, keys, o) ==
    [endpoint |-> endpoint, bytes |-> bytes, keys |-> keys, answer |-> o]

\* what the POST to /assets can give
UploadOutcomes == {"asset", "noid", "status", "exception"}

\* upload_image: None for a file above the limit, a file that cannot be read
\* and every failure of the upload, the asset id otherwise
TooLargeForUpload(size) == size > SizeLimit
upload_image(file, o) ==
    IF TooLargeForUpload(file.size) \/ ~file.readable
    THEN [asset_id |-> NoReference, posts |-> << >>]
    ELSE [asset_id |-> IF o = "asset" THEN [kind |-> "asset", bytes |-> 0]
                       ELSE NoReference,
          posts |-> <<Post("assets", file.size, {}, o)>>]

\* encode_image_base64: the whole file as a data URL, None when it cannot be
\* read
encode_image_base64(file) ==
    IF file.readable THEN [kind |-> "data", bytes |-> file.size] ELSE NoReference

\* generate_image_img2img up to the payload: the existence check, the upload
\* and the fallback to the data URL
PrepareReference ==
    /\ ipc = "upload"
    /\ IF ~image_path.exists
       THEN /\ ipc' = "done" /\ img_result' = "None"
            /\ UNCHANGED <<reference, sent>>
       ELSE \E o \in UploadOutcomes :
              LET up == upload_image(image_path, o)
                  ref == IF up.asset_id # NoReference THEN up.asset_id
                         ELSE encode_image_base64(image_path)
              IN /\ sent' = sent \o up.posts
                 /\ reference' = ref
                 /\ IF ref = NoReference
                    THEN ipc' = "done" /\ img_result' = "None"
                    ELSE ipc' = "submit" /\ UNCHANGED img_result
    /\ UNCHANGED <<image_path, img_kwargs, coreVars, dirVars, twinVars>>

\* the POST to generate/img2img and the job id of its answer
SubmitOutcomes == {"job", "nojobid", "status", "exception"}
SubmitImg2Img ==
    /\ ipc = "submit"
    /\ \E o \in SubmitOutcomes :
         /\ sent' = Append(sent, Post("generate/img2img", reference.bytes,
                                      IF "negative_prompt" \in img_kwargs
                                      THEN {"negativePrompt"} ELSE {}, o))
         /\ IF o = "job" THEN ipc' = "poll" /\ UNCHANGED img_result
            ELSE ipc' = "done" /\ img_result' = "None"
    /\ UNCHANGED <<image_path, img_kwargs, reference, coreVars, dirVars, twinVars>>

\* return self.poll_job_status(job_id): the files, [] or None
PollOutcomes == {"files", "[]", "None"}
PollImg2ImgJob ==
    /\ ipc = "poll"
    /\ \E o \in PollOutcomes : img_result' = o
    /\ ipc' = "done"
    /\ UNCHANGED <<image_path, img_kwargs, reference, sent, coreVars, dirVars, twinVars>>

Img2ImgNext ==
    \/ PrepareReference
    \/ SubmitImg2Img
    \/ PollImg2ImgJob
Img2ImgSpec == Img2ImgInit /\ [][Img2ImgNext]_vars

----------------------------------------------------------------------------
(* TwinSpec: ScenarioClient._poll_and_download and                          *)
(* ScenarioImageGenerator.poll_job_status (src/image_generator.py) polling  *)
(* the same job: every HTTP request succeeds and the k-th status request of *)
(* either gets the k-th status response                                     *)

TwinInit ==
    /\ backend = Poller("poll", 0, "none") /\ cli = Poller("poll", 0, "none")
    /\ wellformed = TRUE
    /\ CoreIdle /\ DirIdle /\ ImgIdle

\* a request that succeeds at its first attempt
Succeeds == _make_request([k \in 1..StopAfterAttempt |-> "ok"])

\* a status response of the form the pollers are written for: an object
\* whose 'job', if there, is an object with a numeric progress and a
\* metadata that is an object or left out
WellFormed(shape) ==
    /\ shape.dict /\ shape.job # "null"
    /\ shape.progress = "num" /\ shape.metadata # "null"

\* what the assets of a successful job come to when every request succeeds:
\* no asset ids, or ids of which some (got) or none name an image URL
AssetsClass(shape, got) ==
    IF AssetIdsOf(shape).exc # "" \/ AssetIdsOf(shape).v = 0 THEN "noassets"
    ELSE IF got THEN "images" ELSE "noassets"

\* one iteration of the loop of _poll_and_download on a poller that made n
\* requests
PollAndDownloadStep(n, shape, got) ==
    LET v == PollVerdict(Succeeds, shape)
    IN IF v.kind = "success" THEN Poller("done", n + 1, AssetsClass(shape, got))
       ELSE IF v.kind = "failure" THEN Poller("done", n + 1, "failure")
       ELSE IF v.kind = "swallowed"
       THEN IF IsLastAttempt(n) THEN Poller("done", n + 1, "error")
            ELSE Poller("poll", n + 1, "none")
       ELSE IF PollingExhausted(n + 1) THEN Poller("done", n + 1, "timeout")
       ELSE Poller("poll", n + 1, "none")

\* one iteration of the loop of poll_job_status: any exception ends the
\* polling (except Exception: return None)
PollJobStatusOneMore(n, shape, got) ==
    IF ~shape.dict \/ shape.job = "null" THEN Poller("done", n + 1, "error")
    ELSE IF shape.job = "object" /\ shape.status = "success"
    THEN Poller("done", n + 1, AssetsClass(shape, got))
    ELSE IF shape.job = "object" /\ shape.status = "failure"
    THEN Poller("done", n + 1, "failure")
    ELSE IF /\ shape.job = "object" /\ shape.status \in {"queued", "in-progress"}
            /\ shape.progress = "bad"
    THEN Poller("done", n + 1, "error")
    ELSE IF n + 1 > max_attempts THEN Poller("done", n + 1, "timeout")
    ELSE Poller("poll", n + 1, "none")
PollJobStatusStep(n, shape, got) ==
    IF ~shape.dict \/ shape.job = "null" THEN Poller("done", n + 1, "error")
    ELSE IF shape.job = "object" /\ shape.status = "success"
    THEN Poller("done", n + 1, AssetsClass(shape, got))
    ELSE IF shape.job = "object" /\ shape.status = "failure"
    THEN Poller("done", n + 1, "failure")
    ELSE IF /\ shape.job = "object" /\ shape.status \in {"queued", "in-progress"}
            /\ shape.progress = "bad"
    THEN Poller("done", n + 1, "error")
    ELSE IF n + 1 >= max_attempts THEN Poller("done", n + 1, "timeout")
    ELSE Poller("poll", n + 1, "none")

\* the next status response, read by each poller that is still polling
StatusResponse ==
    /\ backend.pc = "poll" \/ cli.pc = "poll"
    /\ \E shape \in StatusShapes, got \in BOOLEAN :
         /\ backend' = IF backend.pc = "poll"
                       THEN PollAndDownloadStep(backend.requests, shape, got)
                       ELSE backend
         /\ cli' = IF cli.pc = "poll"
                   THEN PollJobStatusStep(cli.requests, shape, got)
                   ELSE cli
         /\ wellformed' = (wellformed /\ WellFormed(shape))
    /\ UNCHANGED <<coreVars, dirVars, imgVars>>

TwinNext == StatusResponse
TwinSpec == TwinInit /\ [][TwinNext]_vars

----------------------------------------------------------------------------
(* ApiSpec: a sequence of requests to /api/search, /api/process,            *)
(* /api/generate-image, /api/health and /api/last-result against one server *)
(* process                                                                  *)

ApiInit ==
    /\ environ \in [serper : BOOLEAN, scenario : BOOLEAN]
    /\ serper_client = "None" /\ scenario_client = "None"
    /\ last_result_file = NoFile /\ http = NoHttp /\ trace = << >>
    /\ world = NoWorld /\ last_run = NoRun
    /\ ScrapeIdle /\ BatchIdle /\ GenIdle /\ RetryIdle /\ SideIdle

PostSearch ==
    /\ \E req \in SearchRequests, w \in SearchWorlds :
         IF ~Validates(req, 50)
         THEN /\ http' = Exchange("/api/search", req, RequestValidationError)
              /\ trace' = << >> /\ world' = NoWorld
              /\ UNCHANGED serper_client
         ELSE LET r == search_papers(req, w)
              IN /\ http' = Exchange("/api/search", req, r.answer)
                 /\ trace' = r.stages
                 /\ world' = w
                 /\ serper_client' = get_serper_client.client
    /\ UNCHANGED <<environ, scenario_client, last_result_file, last_run,
                   scrapeVars, batchVars, genVars, retryVars, sideVars>>

PostProcess ==
    /\ \E req \in ProcessRequests, w \in Worlds :
         IF ~Validates(req, 20)
         THEN /\ http' = Exchange("/api/process", req, RequestValidationError)
              /\ trace' = << >> /\ world' = NoWorld
              /\ UNCHANGED <<serper_client, scenario_client, last_result_file, last_run>>
         ELSE LET r == process_papers(req, w)
              IN /\ http' = Exchange("/api/process", req, r.answer)
                 /\ trace' = r.stages
                 /\ world' = w
                 /\ scenario_client' = r.scenario
                 /\ last_result_file' =
                      IF r.saves THEN save_last_result(r.answer.body)
                      ELSE last_result_file
                 /\ last_run' =
                      IF r.answer.status = 200
                      THEN [outcome |-> "response", completed |-> TRUE,
                            response |-> r.answer.body]
                      ELSE [last_run EXCEPT !.outcome = "error"]
                 /\ serper_client' = get_serper_client.client
    /\ UNCHANGED <<environ, scrapeVars, batchVars, genVars, retryVars, sideVars>>

\* one POST /api/generate-image with a well-formed body
PostGenerateImage ==
    /\ \E o \in ImageOutcomes :
         /\ http' = Exchange("/api/generate-image", NoRequest, generate_image(o))
         /\ world' = ImageWorld(o)
    /\ trace' = IF get_scenario_client.exc = "" THEN <<Stage("image", 0)>> ELSE << >>
    /\ scenario_client' = get_scenario_client.client
    /\ UNCHANGED <<environ, serper_client, last_result_file, last_run,
                   scrapeVars, batchVars, genVars, retryVars, sideVars>>

\* one GET /api/health; the two get_*_client calls construct the clients
GetHealth ==
    /\ http' = [Exchange("/api/health", NoRequest, Answer(200, "", NoBody))
                  EXCEPT !.health = health_check]
    /\ trace' = << >>
    /\ world' = NoWorld
    /\ serper_client' = get_serper_client.client
    /\ scenario_client' = get_scenario_client.client
    /\ UNCHANGED <<environ, last_result_file, last_run,
                   scrapeVars, batchVars, genVars, retryVars, sideVars>>

GetLastResult ==
    /\ http' = Exchange("/api/last-result", NoRequest, get_last_result)
    /\ trace' = << >>
    /\ world' = NoWorld
    /\ UNCHANGED <<environ, serper_client, scenario_client, last_result_file,
                   last_run, scrapeVars, batchVars, genVars, retryVars, sideVars>>

ApiNext ==
    \/ PostSearch
    \/ PostProcess
    \/ PostGenerateImage
    \/ GetHealth
    \/ GetLastResult
ApiSpec == ApiInit /\ [][ApiNext]_vars

----------------------------------------------------------------------------
(* Properties of the scraper *)

InputFields(p) == [title |-> p.title, link |-> p.link, snippet |-> p.snippet]
ResultFields(p) ==
    [abstract |-> p.abstract, source |-> p.abstract_source, success |-> p.scrape_success]

\* C1: batch_scrape returns exactly as many papers as it was given, in input
\* order; the i-th paper is the i-th input paper and carries the result of
\* its own scrape_abstract call (its own snippet when that call fell back),
\* whatever happened to any paper's extraction; /api/scrape answers 200 with
\* total = N.
BatchKeepsOrderAndCardinality ==
    bpc = "done" =>
        /\ response.status = 200
        /\ response.total = Len(request)
        /\ Len(papers) = Len(request)
        /\ Len(returned) = Len(request)
        /\ \A i \in 1..Len(request) :
              /\ InputFields(papers[i]) = InputFields(request[i])
              /\ ResultFields(papers[i]) = returned[i]
              /\ papers[i].abstract_source \in {"scraped", "snippet"}
              /\ papers[i].abstract_source = "snippet" =>
                    papers[i].abstract = Snip(request[i].snippet)

\* a finished batch of two papers in which the first paper's extraction
\* failed and the second paper's succeeded
BatchOfTwoMixedDone ==
    /\ bpc = "done" /\ Len(request) = 2
    /\ papers[1].abstract_source = "snippet" /\ ~papers[1].scrape_success
    /\ papers[2].abstract_source = "scraped" /\ papers[2].scrape_success

\* C28: every step of batch_scrape that processes a paper processes the next
\* one in order (so each paper is processed once), finds its result fields
\* not yet written, writes them, and leaves that paper's title, link and
\* snippet and every other paper as they were; no other step changes a paper.
OwnSlotWrittenOnce ==
    [][/\ bidx' = bidx => papers' = papers
       /\ bidx' # bidx =>
             /\ bidx' = bidx + 1 /\ bidx' \in DOMAIN papers
             /\ DOMAIN papers' = DOMAIN papers
             /\ ResultFields(papers[bidx']) = NoResult
             /\ papers'[bidx'].abstract_source \in {"scraped", "snippet"}
             /\ InputFields(papers'[bidx']) = InputFields(papers[bidx'])
             /\ \A j \in DOMAIN papers : j # bidx' => papers'[j] = papers[j]]_vars

\* the second paper of a batch has just been written, after the first one:
\* the first holds its scraped abstract, the second its snippet
SecondSlotWritten ==
    /\ bpc = "loop" /\ bidx = 2
    /\ papers[1].abstract_source = "scraped"
    /\ papers[2].abstract_source = "snippet"

\* C27: during batch_scrape the number of extractions in flight at the same
\* time never exceeds the pool bound of 5.
InFlightWithinPoolBound == Cardinality(in_flight) <= 5

\* in a batch of more than five papers the sixth extraction is in flight,
\* the first five being over
SixthExtractionInFlight ==
    /\ bpc = "loop" /\ Len(papers) > 5
    /\ in_flight = {6} /\ Len(returned) = 5

ExtractedLen == PyLen(Strip(obs.extracted))
TextExtracted == spc = "returned" /\ obs.extracted.kind = "text"

\* C10 as stated: with threshold 50, text of trimmed length L gives source
\* 'snippet' when L < 50 and 'scraped' when L >= 50.
ThresholdInclusive ==
    TextExtracted =>
        /\ ExtractedLen < MinAbstractLen => result.source = "snippet"
        /\ ExtractedLen >= MinAbstractLen => result.source = "scraped"

\* C10 (amended): text of trimmed length L gives source 'snippet' when
\* L <= 50 and 'scraped' when L > 50; so 49 and 50 fall back, 51 is accepted.
ThresholdExclusive ==
    TextExtracted =>
        /\ ExtractedLen <= MinAbstractLen =>
              result = Snippet(fallback_snippet)
        /\ ExtractedLen > MinAbstractLen =>
              result = Scraped(Strip(obs.extracted))

\* a call that extracted a text of exactly 50 characters and fell back
BoundaryTextFellBack ==
    /\ TextExtracted /\ ExtractedLen = MinAbstractLen
    /\ result.source = "snippet"

\* the link is empty or could not be fetched
NothingFetched == spc = "returned" /\ (url.empty \/ ~obs.fetched)

LongCandidates ==
    {k \in DOMAIN obs.found :
        obs.found[k] # None /\ PyLen(obs.found[k]) > MinAbstractLen}
\* the anchors a dedicated strategy found on the page
PresentAnchors == {k \in DOMAIN obs.found : obs.found[k] # None}
Lowest(S) == CHOOSE k \in S : \A j \in S : k <= j

\* C29 as stated: the generic strategy examines its six candidates in order;
\* absent candidates and candidates not longer than the minimum length are
\* skipped, and the first candidate longer than the minimum length becomes
\* the scraped abstract of the result; with no such candidate the result is
\* the snippet.
FirstLongCandidateWins ==
    (spc = "returned" /\ obs.parsed /\ obs.strategy = "generic") =>
        IF LongCandidates = {} THEN result.source = "snippet"
        ELSE result = Scraped(Strip(obs.found[Lowest(LongCandidates)]))

\* C30 as stated: a dedicated strategy returns the text of its first anchor,
\* of the second only when the first is absent, with the leading 'Abstract'
\* label stripped; None when no anchor is present.
FirstAnchorWithoutLabel ==
    (spc = "returned" /\ obs.parsed /\ obs.strategy \notin {"generic", ""}) =>
        IF PresentAnchors = {} THEN obs.extracted = None
        ELSE obs.extracted =
               [obs.found[Lowest(PresentAnchors)] EXCEPT !.label = FALSE, !.pad = 0]

DedicatedStrategyOnly ==
    (spc = "returned" /\ obs.strategy \notin {"generic", ""}) =>
        /\ obs.attempts <= 3
        /\ (obs.parsed /\ PresentAnchors = {}) => obs.extracted = None
        /\ (obs.extracted = None \/ PyLen(Strip(obs.extracted)) <= MinAbstractLen) =>
              /\ result.source = "snippet"
              /\ result.abstract = Snip(fallback_snippet)

\* a publisher's page without the strategy's anchors but with a description
\* the generic selectors would accept gave the snippet
DedicatedMissedGenericNotTried ==
    /\ spc = "returned" /\ obs.strategy = "springer" /\ obs.parsed
    /\ PresentAnchors = {} /\ obs.elsewhere # None
    /\ result.source = "snippet"

----------------------------------------------------------------------------
(* Properties of the generation job client *)

\* C3: once a status read has returned 'failure' or 'success', no further
\* status request (and no further submit) is issued for the job; after
\* 'failure' the call has failed with ScenarioAPIError "Job failed: <error>"
\* carrying the error the remote service reported.
TerminalStatesAreSticky ==
    /\ [][reads.terminal # "none" =>
            calls'.status = calls.status /\ calls'.submit = calls.submit]_vars
    /\ [](reads.terminal = "failure" =>
            /\ gpc = "done"
            /\ outcome = ApiError("Job failed",
                                  IF reads.remoteMsg # "" THEN reads.remoteMsg
                                  ELSE "Unknown error"))

\* the job reported failure with the message E1 on its third status read
FailureReadOnThirdPoll ==
    /\ reads.terminal = "failure" /\ reads.remoteMsg = "E1" /\ calls.status = 3
    /\ gpc = "done" /\ outcome.detail = "E1"

TransientCauses == {"conn", "timeout", "http5xx"}

\* C5 as stated: a status request that fails transiently on a polling attempt
\* other than the last is swallowed, and the client goes on polling.
TransientPollErrorIsSwallowed ==
    (lastRead.kind = "reqerror" /\ lastRead.cause \in TransientCauses
        /\ calls.status < max_attempts)
    => gpc = "poll"

\* how many of the assets processed so far resolved and downloaded
RECURSIVE OkPaths(_, _)
OkPaths(log, k) ==
    IF k > Len(log) THEN << >>
    ELSE IF log[k] = "ok" THEN <<FilePath(k - 1)>> \o OkPaths(log, k + 1)
    ELSE OkPaths(log, k + 1)

\* C6: generate_image never returns an empty list; when the job reported
\* 'success' and no asset resolved and downloaded, it raises ScenarioAPIError.
NoEmptyResult ==
    gpc = "done" =>
        /\ outcome.kind = "returned" => downloaded_files # << >>
        /\ (reads.terminal = "success" /\ OkPaths(assetLog, 1) = << >>) =>
              (outcome.kind = "raised" /\ outcome.exc = "ScenarioAPIError")

\* a successful job with two assets, none of which could be downloaded
SuccessWithoutUsableAssets ==
    /\ gpc = "done" /\ reads.terminal = "success" /\ Len(asset_ids) = 2
    /\ assetLog = <<"download_failed", "no_url">>
    /\ outcome = ApiError("Failed to download any images", "")

\* C7: for a successful job with asset ids, every asset is processed, and the
\* files are exactly those of the assets whose lookup, URL extraction and
\* download all succeeded, in asset order; the call returns them if there
\* are any.
PartialAssetResolution ==
    (gpc = "done" /\ asset_ids # << >>) =>
        /\ Len(assetLog) = Len(asset_ids)
        /\ downloaded_files = OkPaths(assetLog, 1)
        /\ downloaded_files # << >> => outcome = ReturnedFiles

\* two assets, the first lookup failed, the second asset was downloaded
SecondAssetSurvivesFirst ==
    /\ gpc = "done" /\ assetLog = <<"lookup_failed", "ok">>
    /\ downloaded_files = <<FilePath(1)>> /\ outcome.kind = "returned"

\* the first identifier present in the submit response, "" if there is none
FirstPresentId(resp) ==
    IF resp.dict /\ resp.job = "object" /\ resp.nested # "" THEN resp.nested
    ELSE IF resp.dict /\ resp.jobId # "" THEN resp.jobId
    ELSE IF resp.dict THEN resp.id
    ELSE ""

\* C8 as stated: the job id is the first present of job.jobId, jobId, id; when
\* none is present generate_image has failed with ScenarioAPIError after one
\* submit call and no status request.
JobIdIsFirstPresent ==
    submit_response # NoResponse =>
        IF FirstPresentId(submit_response) # ""
        THEN job_id = FirstPresentId(submit_response)
        ELSE /\ gpc = "done"
             /\ outcome.kind = "raised" /\ outcome.exc = "ScenarioAPIError"
             /\ calls.submit = 1 /\ calls.status = 0

\* C9 as stated: generate_image returns a list of files or raises
\* ScenarioAPIError; no other exception type reaches the caller.
OnlyTypedErrorsEscape ==
    gpc = "done" =>
        \/ outcome.kind = "returned"
        \/ outcome.kind = "raised" /\ outcome.exc = "ScenarioAPIError"

----------------------------------------------------------------------------
(* Properties of the dispatch and of the empty link *)

\* C11 as stated: for a paper with an empty link scrape_abstract makes no
\* request attempt at all (no fetch, no retry) and returns the paper's
\* snippet with source 'snippet' and success false.
EmptyLinkShortCircuits ==
    (spc = "returned" /\ url.empty) =>
        /\ obs.attempts = 0
        /\ result = Snippet(fallback_snippet)

\* the order in which the claim lists the host patterns, and their strategies
DispatchOrder == <<"arxiv.org", "pubmed", "ncbi.nlm.nih.gov", "ieee", "acm.org", "springer">>
StrategyNamed(p) ==
    IF p = "arxiv.org" THEN "arxiv"
    ELSE IF p \in {"pubmed", "ncbi.nlm.nih.gov"} THEN "pubmed"
    ELSE IF p = "ieee" THEN "ieee"
    ELSE IF p = "acm.org" THEN "acm"
    ELSE "springer"
EarliestMatch(host) ==
    IF \E k \in DOMAIN DispatchOrder : DispatchOrder[k] \in host
    THEN StrategyNamed(DispatchOrder[
            CHOOSE k \in DOMAIN DispatchOrder :
                /\ DispatchOrder[k] \in host
                /\ \A j \in 1..(k - 1) : DispatchOrder[j] \notin host])
    ELSE "generic"

\* C17: every call runs exactly one strategy, chosen from the host of the
\* link alone: the strategy of the earliest pattern, in the order arxiv.org,
\* pubmed | ncbi.nlm.nih.gov, ieee, acm.org, springer, that the host contains,
\* and the generic strategy when the host contains none (whatever the path
\* of the link contains).
DispatchByHostInOrder ==
    spc = "returned" =>
        obs.strategy = EarliestMatch(IF url.empty THEN {} ELSE url.host)

\* a link on a Springer host whose path names pubmed went to the Springer
\* strategy
SpringerHostPubmedPathDispatched ==
    /\ spc = "returned" /\ url = LinkWithPath(FALSE, {"springer"}, {"pubmed"})
    /\ obs.strategy = "springer"

----------------------------------------------------------------------------
(* Properties of the polling schedule and of asset resolution *)

\* C12 as stated: after a non-terminal status read the client waits 2 seconds
\* during the first 5 polling attempts, 3 seconds during the next 10 and 5
\* seconds on every attempt after that.
AdaptivePollingSchedule ==
    lastRead.kind = "sleep" =>
        lastRead.waited = (IF calls.status <= 5 THEN 2
                           ELSE IF calls.status <= 15 THEN 3 ELSE 5)

\* C12, amended: after every non-terminal status read the client waits 5
\* seconds, whatever the number of the polling attempt; it waits only after
\* such a read.
FixedPollingInterval ==
    /\ lastRead.kind = "sleep" => lastRead.waited = 5
    /\ lastRead.kind # "sleep" => lastRead.waited = 0

\* the first polling attempt read a non-terminal status and waited 5 seconds
FirstPollWaitedFive ==
    /\ gpc = "poll" /\ calls.status = 1 /\ lastRead.kind = "sleep"
    /\ lastRead.status = "queued" /\ lastRead.waited = 5

\* C13 as stated: when the 'success' answer carries image URLs the client
\* returns them without any asset lookup.
EmbeddedUrlsFastPath ==
    (gpc = "done" /\ reads.terminal = "success" /\ lastRead.urls) =>
        /\ calls.asset = 0
        /\ outcome.kind = "returned"

\* C13, amended: whether or not the 'success' answer carries image URLs, the
\* client reads the asset ids of job.metadata and looks every one of them up;
\* every file it returns comes from such a lookup, and an answer without
\* asset ids is an error.
EveryAssetIsLookedUp ==
    (gpc = "done" /\ reads.terminal = "success") =>
        /\ calls.asset = lastRead.nids
        /\ Len(downloaded_files) <= calls.asset
        /\ lastRead.nids = 0 =>
              (outcome.kind = "raised" /\ outcome.exc = "ScenarioAPIError")

\* a 'success' answer carrying image URLs and two asset ids: both assets were
\* looked up and downloaded
UrlsCarriedAssetsLookedUp ==
    /\ gpc = "done" /\ reads.terminal = "success" /\ lastRead.urls
    /\ lastRead.nids = 2 /\ calls.asset = 2
    /\ downloaded_files = <<FilePath(0), FilePath(1)>>
    /\ outcome = ReturnedFiles

----------------------------------------------------------------------------
(* Properties of the retry policy *)

TransientOutcomes == {"conn", "timeout", "http5xx"}

\* C15 as stated: _fetch_page and ScenarioClient._make_request do not retry a
\* 4xx answer other than rate-limit: the call makes that one attempt and
\* fails; connection errors, timeouts and 5xx answers are retried.
NonTransientIsNotRetried ==
    (wrapper \in {"PaperScraper._fetch_page", "ScenarioClient._make_request"}
        /\ Len(history) = 1) =>
        /\ history[1] = "http4xx" => (rpc = "raised" /\ attempt_number = 1)
        /\ history[1] \in TransientOutcomes => rpc = "attempt"

Failures(h) == {k \in DOMAIN h : h[k] # "ok"}

\* C16: a call of any of the four functions makes at most 3 attempts; it goes
\* on only while no attempt has succeeded, returns at the first successful
\* attempt, and when its third attempt fails too it raises that attempt's
\* error instead of trying again.
AtMostThreeAttempts ==
    /\ attempt_number = Len(history) /\ attempt_number <= 3
    /\ waits <= 2
    /\ rpc = "attempt" => Failures(history) = DOMAIN history
    /\ rpc = "returned" =>
          /\ history[Len(history)] = "ok"
          /\ Failures(history) = 1..(Len(history) - 1)
    /\ (Len(history) = 3 /\ Failures(history) = 1..3) =>
          /\ rpc = "raised"
          /\ raised_error = [type |-> ExceptionOf(wrapper, history[3]),
                             cause |-> history[3]]
    /\ rpc = "raised" => Failures(history) = DOMAIN history

\* a search request that failed three times in a row and raised the error of
\* the third attempt
ThirdFailureRaised ==
    /\ wrapper = "SerperClient._make_request" /\ rpc = "raised"
    /\ history = <<"conn", "http5xx", "timeout">> /\ waits = 2
    /\ raised_error = [type |-> "SerperAPIError", cause |-> "timeout"]

\* C25: within one job every downloaded asset has its own file path: the
\* paths carry the 1-based positions of their assets, in increasing order,
\* also when assets in between were skipped.
DistinctFilePaths ==
    \A a, b \in DOMAIN downloaded_files :
        /\ downloaded_files[a].seq \in 1..Len(asset_ids)
        /\ a < b => downloaded_files[a].seq < downloaded_files[b].seq
        /\ a # b => downloaded_files[a] # downloaded_files[b]

\* a job with two assets ended with both downloaded, to two paths
TwoAssetsTwoFiles ==
    /\ gpc = "done" /\ outcome.kind = "returned"
    /\ Len(asset_ids) = 2 /\ Len(downloaded_files) = 2
    /\ downloaded_files[1].seq = 1 /\ downloaded_files[2].seq = 2

\* the requests a call of generate_image has made so far
Work == calls.submit + calls.status + calls.asset + calls.download

\* C26: a call of generate_image makes at most one submit request, at most 60
\* status requests, one lookup per asset identifier and at most one download
\* per lookup, each request being tried at most 3 times; every step of the
\* call makes one more of these requests, and until the call has ended a
\* next step is due (the polling loop is not exhausted, an asset is left).
\* So the call ends after at most 1 + 60 + 2 * (number of assets) requests.
GenerateImageBounded ==
    /\ [](/\ calls.submit <= 1 /\ calls.status <= 60
          /\ calls.asset <= Len(asset_ids) /\ calls.download <= calls.asset
          /\ \A r \in Requests : r.attempts \in 1..3
          /\ \A d \in Downloads : d.attempts \in 1..3
          /\ gpc \in {"submit", "poll", "lookup", "download", "done"}
          /\ gpc = "poll" => attempt < 60 /\ calls.status < 60
          /\ gpc \in {"lookup", "download"} => ai < Len(asset_ids)
          /\ gpc = "done" => outcome.kind \in {"returned", "raised"})
    /\ [][Work' = Work + 1]_vars

\* a call that ended after making every request it could: the submit, sixty
\* status reads, and a lookup and a download for each of several assets
LongestCallEnded ==
    /\ gpc = "done" /\ outcome.kind = "returned"
    /\ calls.submit = 1 /\ calls.status = 60
    /\ Len(asset_ids) > 1
    /\ calls.asset = Len(asset_ids) /\ calls.download = Len(asset_ids)

\* C31 as stated: whenever another status request is due, the client has
\* waited the polling interval since the previous one, also when the previous
\* polling attempt ended in a swallowed error.
WaitBetweenStatusRequests ==
    (gpc = "poll" /\ calls.status > 0) => lastRead.waited = 5

\* the latest status request was answered, with a status that is missing or
\* is none of 'queued', 'in-progress', 'success', 'failure'
UnknownStatusRead ==
    \/ lastRead.status = "pending"
    \/ lastRead.status = "" /\ lastRead.kind \notin {"swallowed", "reqerror", "none"}

\* C36: a status read with a missing or unknown status is not terminal: the
\* client waits the polling interval and the read counts as a polling
\* attempt; before the 60th attempt the next status request is due, at the
\* 60th the call ends in the timeout error.
UnknownStatusIsNonTerminal ==
    UnknownStatusRead =>
        /\ lastRead.kind = "sleep" /\ lastRead.waited = 5
        /\ attempt = calls.status
        /\ IF calls.status < 60 THEN gpc = "poll" /\ outcome.kind = "none"
           ELSE gpc = "done" /\ outcome = ApiError("Job timeout", "")

\* the 60th status read found the unknown status 'pending' and the call
\* ended in the timeout error
UnknownStatusTimedOut ==
    /\ gpc = "done" /\ calls.status = 60 /\ lastRead.status = "pending"
    /\ outcome.msg = "Job timeout"

\* C32 as stated: one submit through _make_request is processed by the
\* service at most once, also when an attempt times out or loses the answer
\* after the service processed it.
SubmitAcceptedAtMostOnce ==
    wrapper = "ScenarioClient._make_request" => accepted <= 1

\* the paths a job returned
ReturnedPaths(j) ==
    {jobs[j].downloaded_files[k] : k \in DOMAIN jobs[j].downloaded_files}

\* C33 as stated: two jobs sharing an output directory never write to the
\* same path, and a file a job returned still holds that job's image, also
\* when both jobs take their timestamp within the same second.
JobsWriteDistinctPaths ==
    /\ ReturnedPaths(1) \cap ReturnedPaths(2) = {}
    /\ \A j \in 1..2 : \A path \in ReturnedPaths(j) :
          [path |-> path, from |-> j] \in output_dir

\* C38 as stated: generate_image_img2img submits no generation job whose
\* payload carries the content of a reference image larger than 10 MB.
OversizedReferenceNeverSent ==
    \A k \in DOMAIN sent :
        sent[k].endpoint = "generate/img2img" => sent[k].bytes <= SizeLimit

\* C39, amended: when every HTTP request succeeds and every status response is
\* well-formed, the two pollers make the same number of status requests and
\* end in the same outcome class.  At the first malformed status response
\* poll_job_status ends with that request (it returns None), while
\* _poll_and_download goes on polling unless that was its last attempt; a
\* success whose metadata is null ends both without assets.
PollersAgreeOnWellFormed ==
    /\ wellformed => backend = cli
    /\ ~wellformed =>
          /\ cli.pc = "done" /\ cli.requests <= backend.requests
          /\ cli.class # "error" => backend = cli
          /\ (cli.class = "error" /\ backend.requests = cli.requests) =>
                backend.class = IF cli.requests = max_attempts THEN "error" ELSE "none"

\* both pollers reached the ceiling on well-formed responses and timed out
\* after 60 requests each
BothTimedOutAtCeiling ==
    /\ wellformed /\ backend.pc = "done" /\ cli.pc = "done"
    /\ cli.class = "timeout" /\ cli.requests = max_attempts
    /\ backend.requests = max_attempts

\* C39 as stated: when every HTTP request succeeds the two pollers, given
\* the same status responses, make the same number of status requests and
\* end in the same outcome class.
PollersAgree ==
    (backend.pc = "done" /\ cli.pc = "done") =>
        backend.requests = cli.requests /\ backend.class = cli.class

----------------------------------------------------------------------------
(* Properties of the HTTP API *)

\* the papers the search service lists for the latest request, cut to the
\* number the request asks for
Listing == Take(world.fates, http.request.num)
\* the search service is configured and answered the latest request
SearchServiceAnswered == environ.serper /\ world.search = "ok"

\* C14 as stated: in a /api/process run whose search succeeded, a failure of
\* image generation for a paper (the image client not configured, or
\* generate_image raising) does not fail the request: the answer is 200 and
\* lists every paper in order, a paper whose generation failed has
\* processing_success false and no image paths, and generation is attempted
\* for every paper all the same.
ImageFailureKeepsRequest ==
    (http.endpoint = "/api/process" /\ SearchServiceAnswered
        /\ http.request.generate_images) =>
        /\ http.status = 200
        /\ Len(http.body.papers) = Len(Listing)
        /\ \A i \in 1..Len(Listing) :
              /\ http.body.papers[i].paper = i
              /\ (~environ.scenario \/ Listing[i].image = "error") =>
                    /\ ~http.body.papers[i].processing_success
                    /\ http.body.papers[i].image_paths = << >>
              /\ environ.scenario =>
                    \E k \in DOMAIN trace : trace[k] = Stage("image", i)

SearchAnswers200Or503 ==
    (http.endpoint = "/api/search" /\ Validates(http.request, 50)) =>
        http.status \in {200, 503}

\* C21 as stated: POST /api/generate-image answers 200 or 503 only: 200 when
\* the image client returns files, 503 for every failure of the image
\* service, the image key not being configured included.
GenerateImageAnswers200Or503 ==
    http.endpoint = "/api/generate-image" =>
        http.status = IF environ.scenario /\ world.fates[1].image = "files"
                      THEN 200 ELSE 503

\* C22 as stated: a request to /api/search or /api/process whose query is
\* empty is answered 422 by validation, before the handler constructs a
\* client or makes an outbound request.
EmptyQueryRejected ==
    /\ (http.endpoint \in {"/api/search", "/api/process"}
          /\ http.request.query = "") =>
            http.status = 422 /\ trace = << >>
    /\ [][(http'.endpoint \in {"/api/search", "/api/process"}
            /\ http'.request.query = "") =>
              UNCHANGED <<serper_client, scenario_client>>]_vars

\* C23: GET /api/health always answers 200 with status, version and
\* services; a client that cannot be constructed is reported as 'error', one
\* that can as 'ok', the scraper always as 'ok'; the status is 'healthy'
\* exactly when all three services are 'ok' and 'degraded' otherwise.
HealthReportsServices ==
    http.endpoint = "/api/health" =>
        /\ http.status = 200
        /\ http.health.version = "1.0.0"
        /\ http.health.services.serper = (IF environ.serper THEN "ok" ELSE "error")
        /\ http.health.services.scenario = (IF environ.scenario THEN "ok" ELSE "error")
        /\ http.health.services.scraper = "ok"
        /\ http.health.status \in {"healthy", "degraded"}
        /\ http.health.status = "healthy" <=>
              /\ http.health.services.serper = "ok"
              /\ http.health.services.scenario = "ok"
              /\ http.health.services.scraper = "ok"

\* the health check answered 'degraded' with the search client 'ok' and the
\* image client 'error'
DegradedHealthReported ==
    /\ http.endpoint = "/api/health" /\ http.health.status = "degraded"
    /\ http.health.services.serper = "ok"
    /\ http.health.services.scenario = "error"

\* C34 as stated: a /api/process run answers with a response whose
\* total_papers is the number of papers the scrape returned, one entry per
\* paper in the same order, whose successful is the number of entries with
\* processing_success true, and in which, with generate_images set, an entry
\* has processing_success true exactly when its image_paths is not empty.
ResponseCountsAgree ==
    (http.endpoint = "/api/process" /\ Validates(http.request, 20)
        /\ SearchServiceAnswered) =>
        /\ http.status = 200
        /\ http.body.total_papers = Len(Listing)
        /\ Len(http.body.papers) = Len(Listing)
        /\ \A i \in 1..Len(Listing) :
              /\ http.body.papers[i].paper = i
              /\ http.request.generate_images =>
                    (http.body.papers[i].processing_success
                        <=> http.body.papers[i].image_paths # << >>)
        /\ http.body.successful =
              Cardinality({i \in 1..Len(Listing) :
                             http.body.papers[i].processing_success})

====
